---- MODULE Spec2Model ----
(***************************************************************************)
(* A model of the fuzzer core's leaf components:                           *)
(*   - the weighted random Chooser (package weightedrandom),               *)
(*   - ProjectConfig.Validate (package config),                            *)
(*   - the ABI value JSON encoding (package valuegeneration),              *)
(*   - the ShrinkingValueGenerator (package valuegeneration).              *)
(*                                                                         *)
(* Spec        the Chooser built by NewChooserWithRand, used by concurrent *)
(*             goroutines calling AddChoices and Choose, one statement per *)
(*             step.                                                       *)
(* SpecChoose  Choose as a function of the Chooser's fields and of the     *)
(*             random bytes it reads.                                      *)
(* The remaining specifications apply one pure function each to inputs     *)
(* drawn from bounded sets.                                                *)
(***************************************************************************)
EXTENDS Integers, Sequences, FiniteSets, TLC

VARIABLES
    choices,      \* Chooser.choices: sequence of [Data, weight]
    totalWeight,  \* Chooser.totalWeight: Nil or Ptr(n)
    lockHolder,   \* Chooser.randomProviderLock: 0 when free, else the holder
    pc,           \* per goroutine: the statement it is at
    args,         \* per goroutine: the choices passed to AddChoices
    idx,          \* per goroutine: the range index of the AddChoices loop
    ret,          \* per goroutine: what its last call returned
    panicked,     \* a goroutine panicked and nothing recovered it
    lastAccess,   \* the last access to choices/totalWeight: who, and who held the lock
    call,         \* the pure function applied last, with its inputs
    result,       \* what it returned
    valueSet,     \* the integers of the ValueSet handed to the shrinking generator
    generator     \* the ShrinkingValueGenerator, once it is made

vars == <<choices, totalWeight, lockHolder, pc, args, idx, ret, panicked,
          lastAccess, call, result, valueSet, generator>>

chooserVars == <<choices, totalWeight, lockHolder, pc, args, idx, ret, panicked,
                 lastAccess>>

shrinkVars == <<valueSet, generator>>

(***************************************************************************)
(* Bounds                                                                  *)
(***************************************************************************)
NumThreads == 2    \* goroutines using the Chooser
MaxArgs == 1       \* choices passed to one concurrent AddChoices call
MaxChoices == 3    \* choices a Chooser holds
MaxWeight == 3     \* the weight of one choice

Threads == 1..NumThreads

\* A *big.Int: the nil pointer, or a pointer to an integer.
Nil == <<>>
Ptr(n) == <<n>>
Deref(p) == p[1]

NoCall == [op |-> "none"]

\* No ShrinkingValueGenerator made yet.
NoGenerator == [made |-> FALSE]

(***************************************************************************)
(* math/big helpers, as the Chooser uses them                              *)
(***************************************************************************)
RECURSIVE Pow2(_)
Pow2(n) == IF n = 0 THEN 1 ELSE 2 * Pow2(n - 1)

\* big.Int.BitLen: the length of the absolute value in bits, 0 for 0.
RECURSIVE BitLen(_)
BitLen(n) == IF n = 0 THEN 0 ELSE 1 + BitLen(n \div 2)

\* big.Int.SetBytes: the bytes read as a big-endian unsigned integer.
RECURSIVE SetBytes(_)
SetBytes(bs) ==
    IF Len(bs) = 0 THEN 0
    ELSE SetBytes(SubSeq(bs, 1, Len(bs) - 1)) * 256 + bs[Len(bs)]

RECURSIVE SumWeights(_)
SumWeights(cs) ==
    IF Len(cs) = 0 THEN 0 ELSE cs[1].weight + SumWeights(Tail(cs))

(***************************************************************************)
(* Choice / Chooser                                                        *)
(***************************************************************************)
DataNames == <<"a", "b", "c", "d", "e">>

\* NewChoice(data, weight)
NewChoice(data, weight) == [Data |-> data, weight |-> weight]

\* Lists of up to n choices, the i-th carrying the i-th data name from
\* `first` on, with any weight in 0..maxw.
ChoiceLists(first, n, maxw) ==
    UNION { { [i \in 1..k |-> NewChoice(DataNames[first + i - 1], w[i])] :
                w \in [1..k -> 0..maxw] } : k \in 0..n }

\* NewChooserWithRand: the fields of the Chooser it returns. totalWeight is
\* not among the fields the composite literal sets, so it is the zero value
\* of *big.Int: nil.
NewChooserWithRand == [choices |-> <<>>, totalWeight |-> Nil]

(***************************************************************************)
(* Chooser.Choose                                                          *)
(***************************************************************************)
\* What a call returns: nothing yet, a pointer to the Data of choices[index],
\* an error, or a panic that unwinds the call.
NoReturn == [kind |-> "none", index |-> 0, data |-> "", err |-> ""]
ReturnItem(i, d) == [kind |-> "item", index |-> i, data |-> d, err |-> ""]
ReturnError(e) == [kind |-> "error", index |-> 0, data |-> "", err |-> e]
ReturnVoid == [kind |-> "void", index |-> 0, data |-> "", err |-> ""]
Panic(e) == [kind |-> "panic", index |-> 0, data |-> "", err |-> e]

\* ChooseGuard without the test for an empty Chooser.
ChooseGuardNoEmptyTest(chs, tw) ==
    IF tw = Nil THEN "panic"
    ELSE IF Deref(tw) = 0 THEN "error"
    ELSE "proceed"

\* Lines 203-206: the test Choose makes before it takes the lock.
\* "error": return the error; "proceed": go on to lock and sample;
\* "panic": totalWeight.Cmp on a nil *big.Int.
ChooseGuard(chs, tw) ==
    IF Len(chs) = 0 THEN "error"
    ELSE IF tw = Nil THEN "panic"
    ELSE IF Deref(tw) = 0 THEN "error"
    ELSE "proceed"

\* The number of random bytes Choose reads: make([]byte, totalWeight.BitLen()).
RandomDataLen(tw) == BitLen(tw)

\* SelectedWeightPosition without the modulus of line 234.
SelectedWeightPositionNoMod(tw, randomData) ==
    LET bitLength == BitLen(tw)
        unusedBits == bitLength % 8
        masked == [randomData EXCEPT ![1] = @ % Pow2(8 - unusedBits)]
    IN  SetBytes(masked)

\* Lines 212-234: the weight position derived from the random bytes read.
\* tw is the (non-zero) total weight, randomData the bytes read.
SelectedWeightPosition(tw, randomData) ==
    LET bitLength == BitLen(tw)
        unusedBits == bitLength % 8
        masked == [randomData EXCEPT ![1] = @ % Pow2(8 - unusedBits)]
    IN  SetBytes(masked) % tw

\* ScanChoices comparing with <= where line 240 compares with <.
RECURSIVE ScanChoicesInclusive(_, _, _)
ScanChoicesInclusive(chs, i, pos) ==
    IF i > Len(chs) THEN 0
    ELSE IF pos <= chs[i].weight THEN i
    ELSE ScanChoicesInclusive(chs, i + 1, pos - chs[i].weight)

\* Lines 236-246: the cumulative scan; the index of the choice selected for
\* position pos, or 0 when the loop ends without selecting one.
RECURSIVE ScanChoices(_, _, _)
ScanChoices(chs, i, pos) ==
    IF i > Len(chs) THEN 0
    ELSE IF pos < chs[i].weight THEN i
    ELSE ScanChoices(chs, i + 1, pos - chs[i].weight)

\* Lines 208-248: what Choose returns once it holds the lock.
\* randomData[0] on line 228 is out of range when no byte was read.
ChooseLocked(chs, tw, randomData) ==
    IF Len(randomData) = 0 THEN Panic("index out of range")
    ELSE LET i == ScanChoices(chs, 1, SelectedWeightPosition(Deref(tw), randomData))
         IN  IF i = 0 THEN ReturnError("selected position does not exist")
             ELSE ReturnItem(i, chs[i].Data)

\* Choose as a function of the Chooser's fields and the random bytes.
ChooseFn(chs, tw, randomData) ==
    LET g == ChooseGuard(chs, tw)
    IN  IF g = "error" THEN ReturnError("no choices exist with non-zero weights")
        ELSE IF g = "panic" THEN Panic("nil pointer dereference")
        ELSE ChooseLocked(chs, tw, randomData)

\* The byte values the random provider is sampled at.
RandomByteValues == {0, 1, 2, 255}

RandomData(n) == [1..n -> RandomByteValues]

(***************************************************************************)
(* Spec: goroutines calling AddChoices and Choose on one Chooser           *)
(***************************************************************************)
NoAccess == [thread |-> 0, holder |-> 0]

\* An access of goroutine t to choices/totalWeight, with the lock's holder
\* at that moment.
Access(t) == [thread |-> t, holder |-> lockHolder]

Init ==
    /\ choices = NewChooserWithRand.choices
    /\ totalWeight = NewChooserWithRand.totalWeight
    /\ lockHolder = 0
    /\ pc = [t \in Threads |-> "idle"]
    /\ args = [t \in Threads |-> <<>>]
    /\ idx = [t \in Threads |-> 0]
    /\ ret = [t \in Threads |-> NoReturn]
    /\ panicked = FALSE
    /\ lastAccess = NoAccess
    /\ call = NoCall
    /\ result = NoReturn
    /\ valueSet = {}
    /\ generator = NoGenerator

\* A goroutine calls AddChoices(cs...).
CallAddChoices(t) ==
    /\ ~panicked
    /\ pc[t] = "idle"
    /\ \E cs \in ChoiceLists(t, MaxArgs, 1) :
         /\ Len(choices) + Len(cs) <= MaxChoices
         /\ args' = [args EXCEPT ![t] = cs]
    /\ pc' = [pc EXCEPT ![t] = "add_lock"]
    /\ ret' = [ret EXCEPT ![t] = NoReturn]
    /\ UNCHANGED <<choices, totalWeight, lockHolder, idx, panicked, lastAccess,
                   call, result, shrinkVars>>

\* Line 189: c.randomProviderLock.Lock()
AddChoicesLock(t) ==
    /\ ~panicked
    /\ pc[t] = "add_lock"
    /\ lockHolder = 0
    /\ lockHolder' = t
    /\ idx' = [idx EXCEPT ![t] = 1]
    /\ pc' = [pc EXCEPT ![t] = "add_sum"]
    /\ UNCHANGED <<choices, totalWeight, args, ret, panicked, lastAccess,
                   call, result, shrinkVars>>

\* Lines 193-195: one iteration of the loop summing the weights.
\* big.Int.Add reads its first operand: with totalWeight nil that is a nil
\* pointer dereference; the deferred Unlock runs and the panic goes on.
AddChoicesSum(t) ==
    /\ ~panicked
    /\ pc[t] = "add_sum"
    /\ idx[t] <= Len(args[t])
    /\ lastAccess' = Access(t)
    /\ IF totalWeight = Nil
       THEN /\ panicked' = TRUE
            /\ lockHolder' = 0
            /\ ret' = [ret EXCEPT ![t] = Panic("nil pointer dereference")]
            /\ pc' = [pc EXCEPT ![t] = "panicked"]
            /\ UNCHANGED <<totalWeight, idx>>
       ELSE /\ totalWeight' = Ptr(Deref(totalWeight) + args[t][idx[t]].weight)
            /\ idx' = [idx EXCEPT ![t] = @ + 1]
            /\ UNCHANGED <<panicked, lockHolder, ret, pc>>
    /\ UNCHANGED <<choices, args, call, result, shrinkVars>>

\* Line 198: c.choices = append(c.choices, choices...)
AddChoicesAppend(t) ==
    /\ ~panicked
    /\ pc[t] = "add_sum"
    /\ idx[t] > Len(args[t])
    /\ choices' = choices \o args[t]
    /\ lastAccess' = Access(t)
    /\ pc' = [pc EXCEPT ![t] = "add_unlock"]
    /\ UNCHANGED <<totalWeight, lockHolder, args, idx, ret, panicked, call, result, shrinkVars>>

\* Line 190: the deferred Unlock, and the return.
AddChoicesUnlock(t) ==
    /\ ~panicked
    /\ pc[t] = "add_unlock"
    /\ lockHolder' = 0
    /\ pc' = [pc EXCEPT ![t] = "idle"]
    /\ args' = [args EXCEPT ![t] = <<>>]
    /\ idx' = [idx EXCEPT ![t] = 0]
    /\ ret' = [ret EXCEPT ![t] = ReturnVoid]
    /\ UNCHANGED <<choices, totalWeight, panicked, lastAccess, call, result, shrinkVars>>

\* A goroutine calls Choose().
CallChoose(t) ==
    /\ ~panicked
    /\ pc[t] = "idle"
    /\ pc' = [pc EXCEPT ![t] = "choose_check"]
    /\ ret' = [ret EXCEPT ![t] = NoReturn]
    /\ UNCHANGED <<choices, totalWeight, lockHolder, args, idx, panicked,
                   lastAccess, call, result, valueSet, generator>>

\* Lines 203-249, one statement group per step:
\*   choose_check   lines 204-206: the test of choices and totalWeight,
\*                  made before the lock is taken;
\*   choose_lock    line 209: Lock();
\*   choose_sample  lines 212-248: read the random bytes, derive the
\*                  position, scan, and return through the deferred Unlock.
Choose(t) ==
    /\ ~panicked
    /\ pc[t] \in {"choose_check", "choose_lock", "choose_sample"}
    /\ IF pc[t] = "choose_check"
       THEN /\ lastAccess' = Access(t)
            /\ LET g == ChooseGuard(choices, totalWeight)
               IN  /\ pc' = [pc EXCEPT ![t] =
                                IF g = "error" THEN "idle"
                                ELSE IF g = "panic" THEN "panicked"
                                ELSE "choose_lock"]
                   /\ ret' = [ret EXCEPT ![t] =
                                IF g = "error"
                                THEN ReturnError("no choices exist with non-zero weights")
                                ELSE IF g = "panic" THEN Panic("nil pointer dereference")
                                ELSE NoReturn]
                   /\ panicked' = (g = "panic")
            /\ UNCHANGED lockHolder
       ELSE IF pc[t] = "choose_lock"
       THEN /\ lockHolder = 0
            /\ lockHolder' = t
            /\ pc' = [pc EXCEPT ![t] = "choose_sample"]
            /\ UNCHANGED <<ret, panicked, lastAccess>>
       ELSE /\ \E rd \in RandomData(RandomDataLen(Deref(totalWeight))) :
                 ret' = [ret EXCEPT ![t] = ChooseLocked(choices, totalWeight, rd)]
            /\ lastAccess' = Access(t)
            /\ lockHolder' = 0
            /\ pc' = [pc EXCEPT ![t] = IF ret'[t].kind = "panic" THEN "panicked" ELSE "idle"]
            /\ panicked' = (ret'[t].kind = "panic")
    /\ UNCHANGED <<choices, totalWeight, args, idx, call, result, shrinkVars>>

Next ==
    \E t \in Threads :
        \/ CallAddChoices(t)
        \/ AddChoicesLock(t)
        \/ AddChoicesSum(t)
        \/ AddChoicesAppend(t)
        \/ AddChoicesUnlock(t)
        \/ CallChoose(t)
        \/ Choose(t)

Spec == Init /\ [][Next]_vars

(***************************************************************************)
(* SpecChoose: Choose applied to a Chooser value                           *)
(***************************************************************************)
\* The Chooser values Choose is applied to: the one NewChooserWithRand
\* returns, and those holding up to MaxChoices choices with the total weight
\* AddChoices keeps for them (lines 193-195: the sum of the weights).
InitChoose ==
    /\ \E cs \in ChoiceLists(1, MaxChoices, MaxWeight) :
         /\ choices = cs
         /\ totalWeight \in IF Len(cs) = 0
                            THEN {NewChooserWithRand.totalWeight, Ptr(0)}
                            ELSE {Ptr(SumWeights(cs))}
    /\ lockHolder = 0
    /\ pc = [t \in Threads |-> "idle"]
    /\ args = [t \in Threads |-> <<>>]
    /\ idx = [t \in Threads |-> 0]
    /\ ret = [t \in Threads |-> NoReturn]
    /\ panicked = FALSE
    /\ lastAccess = NoAccess
    /\ call = NoCall
    /\ result = NoReturn
    /\ valueSet = {}
    /\ generator = NoGenerator

\* One call of Choose, for each value of the random bytes it may read.
ApplyChoose ==
    /\ call = NoCall
    /\ \E rd \in RandomData(IF ChooseGuard(choices, totalWeight) = "proceed"
                            THEN RandomDataLen(Deref(totalWeight)) ELSE 0) :
         /\ call' = [op |-> "Choose", randomData |-> rd]
         /\ result' = ChooseFn(choices, totalWeight, rd)
    /\ UNCHANGED <<chooserVars, shrinkVars>>

\* The call returns to its caller, who may call again.
ReturnChoose ==
    /\ call # NoCall
    /\ result.kind # "panic"
    /\ call' = NoCall
    /\ result' = NoReturn
    /\ UNCHANGED <<chooserVars, shrinkVars>>

NextChoose == ApplyChoose \/ ReturnChoose

SpecChoose == InitChoose /\ [][NextChoose]_vars

(***************************************************************************)
(* Strings are sequences of one-character strings.                         *)
(***************************************************************************)
HexDigitChars == <<"0", "1", "2", "3", "4", "5", "6", "7", "8", "9",
                   "a", "b", "c", "d", "e", "f">>
UpperHexDigitChars == <<"0", "1", "2", "3", "4", "5", "6", "7", "8", "9",
                        "A", "B", "C", "D", "E", "F">>

\* The value of every hex digit, of either case.
HexCharValues ==
    [ch \in { HexDigitChars[i] : i \in 1..16 } \cup { UpperHexDigitChars[i] : i \in 1..16 } |->
        (CHOOSE i \in 1..16 : ch \in {HexDigitChars[i], UpperHexDigitChars[i]}) - 1]

\* encoding/hex fromHexChar: the value of a hex digit of either case, or -1.
FromHexChar(c) == IF c \in DOMAIN HexCharValues THEN HexCharValues[c] ELSE -1

\* strings.HasPrefix
HasPrefix(str, prefix) ==
    /\ Len(str) >= Len(prefix)
    /\ SubSeq(str, 1, Len(prefix)) = prefix

\* s repeated n times
RECURSIVE Repeat(_, _)
Repeat(str, n) == IF n = 0 THEN <<>> ELSE str \o Repeat(str, n - 1)

\* common.AddressLength
AddressLength == 20

(***************************************************************************)
(* ProjectConfig.Validate                                                  *)
(***************************************************************************)
MaxCount == 1      \* workers, callSequenceLength, workerResetLimit: -1..MaxCount
MaxGas == 2        \* blockGasLimit, transactionGasLimit: 0..MaxGas
MaxSenders == 1    \* sender addresses in a configuration

\* utils.HexStringToAddress fails on a malformed address string: a string
\* that is not the hex form of a 20-byte address, with or without "0x".
IsWellFormedAddress(str) ==
    LET digits == IF HasPrefix(str, <<"0", "x">>) THEN SubSeq(str, 3, Len(str)) ELSE str
    IN  /\ Len(digits) = 2 * AddressLength
        /\ \A i \in 1..Len(digits) : FromHexChar(digits[i]) >= 0

\* utils.HexStringToAddress: "ok" or "error".
HexStringToAddress(str) == IF IsWellFormedAddress(str) THEN "ok" ELSE "error"

\* utils.HexStringsToAddresses: fails when one of the strings fails.
HexStringsToAddresses(strs) ==
    IF \A i \in 1..Len(strs) : HexStringToAddress(strs[i]) = "ok" THEN "ok" ELSE "error"

\* The address strings configurations are sampled at: a bare and a prefixed
\* 20-byte hex address, one a digit short, and one holding a non-hex letter.
AddressStrings ==
    { Repeat(<<"0">>, 2 * AddressLength - 1) \o <<"a">>,
      <<"0", "x">> \o Repeat(<<"F">>, 2 * AddressLength),
      Repeat(<<"1">>, 2 * AddressLength - 1),
      <<"0", "x">> \o Repeat(<<"0">>, 2 * AddressLength - 1) \o <<"g">> }

SenderLists == UNION { [1..k -> AddressStrings] : k \in 0..MaxSenders }

\* The fields of ProjectConfig that Validate reads (TestPrefixes by its length).
ProjectConfigs ==
    [ Workers : -1..MaxCount,
      CallSequenceLength : -1..MaxCount,
      WorkerResetLimit : -1..MaxCount,
      BlockGasLimit : 0..MaxGas,
      TransactionGasLimit : 0..MaxGas,
      SenderAddresses : SenderLists,
      DeployerAddress : AddressStrings,
      PropertyTestingEnabled : BOOLEAN,
      TestPrefixes : 0..1 ]

ReturnNil == [kind |-> "nil", index |-> 0, data |-> "", err |-> ""]

\* Validate without the test of the worker count.
ValidateNoWorkersTest(p) ==
    IF p.CallSequenceLength <= 0
    THEN ReturnError("positive number for the transaction sequence length")
    ELSE IF p.WorkerResetLimit <= 0
    THEN ReturnError("positive number for the worker reset limit")
    ELSE IF p.BlockGasLimit < p.TransactionGasLimit
    THEN ReturnError("block gas limit which is not less than the transaction gas limit")
    ELSE IF p.BlockGasLimit = 0 \/ p.TransactionGasLimit = 0
    THEN ReturnError("block and transaction gas limit which is non-zero")
    ELSE IF HexStringsToAddresses(p.SenderAddresses) = "error"
    THEN ReturnError("only well-formed sender address(es)")
    ELSE IF HexStringToAddress(p.DeployerAddress) = "error"
    THEN ReturnError("only a well-formed deployer address")
    ELSE IF p.PropertyTestingEnabled /\ p.TestPrefixes = 0
    THEN ReturnError("test name prefixes if property testing is enabled")
    ELSE ReturnNil

\* Validate asking for test prefixes whether or not property testing is
\* enabled.
ValidatePrefixesAlways(p) ==
    IF p.Workers <= 0
    THEN ReturnError("positive number for the worker count")
    ELSE IF p.CallSequenceLength <= 0
    THEN ReturnError("positive number for the transaction sequence length")
    ELSE IF p.WorkerResetLimit <= 0
    THEN ReturnError("positive number for the worker reset limit")
    ELSE IF p.BlockGasLimit < p.TransactionGasLimit
    THEN ReturnError("block gas limit which is not less than the transaction gas limit")
    ELSE IF p.BlockGasLimit = 0 \/ p.TransactionGasLimit = 0
    THEN ReturnError("block and transaction gas limit which is non-zero")
    ELSE IF HexStringsToAddresses(p.SenderAddresses) = "error"
    THEN ReturnError("only well-formed sender address(es)")
    ELSE IF HexStringToAddress(p.DeployerAddress) = "error"
    THEN ReturnError("only a well-formed deployer address")
    ELSE IF p.TestPrefixes = 0
    THEN ReturnError("test name prefixes if property testing is enabled")
    ELSE ReturnNil

\* ProjectConfig.Validate: the first failed requirement's error, or nil.
Validate(p) ==
    IF p.Workers <= 0
    THEN ReturnError("positive number for the worker count")
    ELSE IF p.CallSequenceLength <= 0
    THEN ReturnError("positive number for the transaction sequence length")
    ELSE IF p.WorkerResetLimit <= 0
    THEN ReturnError("positive number for the worker reset limit")
    ELSE IF p.BlockGasLimit < p.TransactionGasLimit
    THEN ReturnError("block gas limit which is not less than the transaction gas limit")
    ELSE IF p.BlockGasLimit = 0 \/ p.TransactionGasLimit = 0
    THEN ReturnError("block and transaction gas limit which is non-zero")
    ELSE IF HexStringsToAddresses(p.SenderAddresses) = "error"
    THEN ReturnError("only well-formed sender address(es)")
    ELSE IF HexStringToAddress(p.DeployerAddress) = "error"
    THEN ReturnError("only a well-formed deployer address")
    ELSE IF p.PropertyTestingEnabled /\ p.TestPrefixes = 0
    THEN ReturnError("test name prefixes if property testing is enabled")
    ELSE ReturnNil

\* No pure function applied yet; the Chooser is as constructed and unused.
InitPure ==
    /\ choices = NewChooserWithRand.choices
    /\ totalWeight = NewChooserWithRand.totalWeight
    /\ lockHolder = 0
    /\ pc = [t \in Threads |-> "idle"]
    /\ args = [t \in Threads |-> <<>>]
    /\ idx = [t \in Threads |-> 0]
    /\ ret = [t \in Threads |-> NoReturn]
    /\ panicked = FALSE
    /\ lastAccess = NoAccess
    /\ call = NoCall
    /\ result = NoReturn
    /\ valueSet = {}
    /\ generator = NoGenerator

\* One call of Validate on a configuration.
ApplyValidate ==
    /\ call = NoCall
    /\ \E p \in ProjectConfigs :
         /\ call' = [op |-> "Validate", p |-> p]
         /\ result' = Validate(p)
    /\ UNCHANGED <<chooserVars, shrinkVars>>

\* The call returns to its caller, who may call again.
ReturnPure ==
    /\ call # NoCall
    /\ result.kind # "panic"
    /\ call' = NoCall
    /\ result' = NoReturn
    /\ UNCHANGED <<chooserVars, shrinkVars>>

NextConfig == ApplyValidate \/ ReturnPure

SpecConfig == InitPure /\ [][NextConfig]_vars

(***************************************************************************)
(* String, hex and integer conversions used by the ABI value JSON encoding *)
(***************************************************************************)
\* What a function returns: a value, an error, or (Panic) a run-time panic.
Ok(v) == [kind |-> "ok", v |-> v]
Err(e) == [kind |-> "error", err |-> e]

DigitChars == <<"0", "1", "2", "3", "4", "5", "6", "7", "8", "9">>

\* The decimal digits of n >= 0, without leading zeros.
RECURSIVE DecimalDigits(_)
DecimalDigits(n) ==
    IF n < 10 THEN <<DigitChars[n + 1]>>
    ELSE DecimalDigits(n \div 10) \o <<DigitChars[(n % 10) + 1]>>

\* strconv.FormatUint(v, 10) / strconv.FormatInt(v, 10) / big.Int.String()
FormatInt(n) == IF n < 0 THEN <<"-">> \o DecimalDigits(-n) ELSE DecimalDigits(n)

\* The value of the digit string ds in the given base, acc being the value
\* of the digits read so far; -1 when a character is no digit of the base.
\* An underscore is skipped (SetString in base 0 allows it as a separator).
RECURSIVE DigitsValue(_, _, _)
DigitsValue(ds, base, acc) ==
    IF Len(ds) = 0 THEN acc
    ELSE IF ds[1] = "_" THEN DigitsValue(Tail(ds), base, acc)
    ELSE LET d == FromHexChar(ds[1])
         IN  IF d < 0 \/ d >= base THEN -1
             ELSE DigitsValue(Tail(ds), base, acc * base + d)

\* Underscores may only separate digits, or a base prefix and a digit:
\* prefixed says that a base prefix stands right before ds.
UnderscoresValid(ds, prefixed) ==
    \A i \in 1..Len(ds) :
        ds[i] = "_" =>
            /\ i < Len(ds)
            /\ ds[i + 1] # "_"
            /\ (i > 1 \/ prefixed)

\* big.Int.SetString(str, 0): an optional sign, then a number whose prefix
\* selects the base ("0x"/"0X" 16, "0b"/"0B" 2, "0o"/"0O" or a leading "0" 8,
\* otherwise 10). The whole string must be a number.
SetString(str) ==
    LET signed == Len(str) > 0 /\ str[1] \in {"+", "-"}
        neg == Len(str) > 0 /\ str[1] = "-"
        body == IF signed THEN Tail(str) ELSE str
        two == IF Len(body) >= 2 THEN SubSeq(body, 1, 2) ELSE <<>>
        base == IF two \in {<<"0", "x">>, <<"0", "X">>} THEN 16
                ELSE IF two \in {<<"0", "b">>, <<"0", "B">>} THEN 2
                ELSE IF two \in {<<"0", "o">>, <<"0", "O">>} THEN 8
                ELSE IF Len(body) >= 2 /\ body[1] = "0" THEN 8
                ELSE 10
        skip == IF base = 10 THEN 0
                ELSE IF base = 8 /\ two \notin {<<"0", "o">>, <<"0", "O">>} THEN 1
                ELSE 2
        digits == SubSeq(body, skip + 1, Len(body))
        val == DigitsValue(digits, base, 0)
    IN  IF Len(digits) = 0 \/ val < 0 \/ ~UnderscoresValid(digits, skip > 0)
           \/ digits[Len(digits)] = "_"
        THEN Err("invalid integer value")
        ELSE Ok(IF neg THEN -val ELSE val)

\* hex.EncodeToString: two lower-case hex digits per byte.
RECURSIVE EncodeToString(_)
EncodeToString(bs) ==
    IF Len(bs) = 0 THEN <<>>
    ELSE <<HexDigitChars[(bs[1] \div 16) + 1], HexDigitChars[(bs[1] % 16) + 1]>>
         \o EncodeToString(Tail(bs))

\* hex.DecodeString: the bytes of the leading well-formed digit pairs, and
\* whether the whole string was decoded (an odd length or a character that
\* is no hex digit is an error, returned with the bytes decoded before it).
DecodeString(str, acc) ==
    LET pairs == Len(str) \div 2
        bad == { k \in 1..pairs :
                    FromHexChar(str[2 * k - 1]) < 0 \/ FromHexChar(str[2 * k]) < 0 }
        n == IF bad = {} THEN pairs ELSE (CHOOSE k \in bad : \A j \in bad : k <= j) - 1
    IN  [ok |-> n = pairs /\ Len(str) % 2 = 0,
         bytes |-> acc \o [k \in 1..n |->
                             FromHexChar(str[2 * k - 1]) * 16 + FromHexChar(str[2 * k])]]

\* strings.Index: the first position at which sep occurs in str, or 0.
Index(str, sep) ==
    LET at == { i \in 1..(Len(str) - Len(sep) + 1) : SubSeq(str, i, i + Len(sep) - 1) = sep }
    IN  IF at = {} THEN 0 ELSE CHOOSE i \in at : \A k \in at : i <= k

\* strings.Cut(str, sep): the text after the first occurrence of sep, and
\* whether sep occurs in str at all.
Cut(str, sep) ==
    LET i == Index(str, sep)
    IN  IF i = 0 THEN [found |-> FALSE, after |-> <<>>]
        ELSE [found |-> TRUE, after |-> SubSeq(str, i + Len(sep), Len(str))]

\* addressJSONContractNameOverridePrefix
addressJSONContractNameOverridePrefix ==
    <<"D", "e", "p", "l", "o", "y", "e", "d", "C", "o", "n", "t", "r", "a", "c", "t", ":">>

(***************************************************************************)
(* ABI types, Go values and JSON values                                    *)
(***************************************************************************)
\* abi.Type: T, and Size, Elem, TupleElems, TupleRawNames where T has them.
AddressTy == [T |-> "address"]
UintTy(size) == [T |-> "uint", Size |-> size]
IntTy(size) == [T |-> "int", Size |-> size]
BoolTy == [T |-> "bool"]
StringTy == [T |-> "string"]
BytesTy == [T |-> "bytes"]
FixedBytesTy(size) == [T |-> "fixedbytes", Size |-> size]
ArrayTy(elem, size) == [T |-> "array", Elem |-> elem, Size |-> size]
SliceTy(elem) == [T |-> "slice", Elem |-> elem]
TupleTy(names, elems) == [T |-> "tuple", TupleRawNames |-> names, TupleElems |-> elems]
\* A type the encoding does not support (abi.FixedPointTy, abi.FunctionTy, ...).
FixedPointTy == [T |-> "fixedpoint"]

\* Go values by dynamic type: go is the type's kind, v the value.
\*   "address" 20 bytes; "uint8".."uint64", "int8".."int64", "bigint" an integer;
\*   "bool"; "string" a sequence of characters; "bytes" a []byte;
\*   "bytearray" a [N]byte; "array" and "slice" sequences of values;
\*   "struct" a sequence of field values, names holding the field names;
\*   "nil" the nil interface value.
GoValue(go, v) == [go |-> go, v |-> v]
GoStruct(names, vals) == [go |-> "struct", names |-> names, v |-> vals]
GoNil == [go |-> "nil", v |-> 0]

\* JSON values as encoding/json hands them over in an `any`.
JString(str) == [j |-> "string", v |-> str]
JBool(b) == [j |-> "bool", v |-> b]
JArray(elems) == [j |-> "array", v |-> elems]
JObject(fields) == [j |-> "object", v |-> fields]
JNumber(n) == [j |-> "number", v |-> n]
JNull == [j |-> "null", v |-> 0]

\* The letters, in ASCII order from "A" (65) and from "a" (97).
UpperLetters == <<"A", "B", "C", "D", "E", "F", "G", "H", "I", "J", "K", "L", "M",
                  "N", "O", "P", "Q", "R", "S", "T", "U", "V", "W", "X", "Y", "Z">>
LowerLetters == <<"a", "b", "c", "d", "e", "f", "g", "h", "i", "j", "k", "l", "m",
                  "n", "o", "p", "q", "r", "s", "t", "u", "v", "w", "x", "y", "z">>

PositionIn(chars, c) ==
    IF \E i \in 1..Len(chars) : chars[i] = c
    THEN CHOOSE i \in 1..Len(chars) : chars[i] = c
    ELSE 0

\* The Go type of the integers of an ABI uint/int type (lines 143-207).
NativeIntKind(t) ==
    CASE t.T = "uint" /\ t.Size = 64 -> "uint64"
      [] t.T = "uint" /\ t.Size = 32 -> "uint32"
      [] t.T = "uint" /\ t.Size = 16 -> "uint16"
      [] t.T = "uint" /\ t.Size = 8 -> "uint8"
      [] t.T = "int" /\ t.Size = 64 -> "int64"
      [] t.T = "int" /\ t.Size = 32 -> "int32"
      [] t.T = "int" /\ t.Size = 16 -> "int16"
      [] t.T = "int" /\ t.Size = 8 -> "int8"
      [] OTHER -> "bigint"

\* strings.ToUpper of one character.
UpperCaseOf(c) ==
    IF PositionIn(LowerLetters, c) > 0 THEN UpperLetters[PositionIn(LowerLetters, c)] ELSE c

\* abi.ToCamelCase, which names the fields of the Go struct type of a tuple
\* after its raw names: the parts between underscores, each with its first
\* letter in upper case, joined.
RECURSIVE ToCamelCase(_, _)
ToCamelCase(name, atStart) ==
    IF Len(name) = 0 THEN <<>>
    ELSE IF name[1] = "_" THEN ToCamelCase(Tail(name), TRUE)
    ELSE <<IF atStart THEN UpperCaseOf(name[1]) ELSE name[1]>>
         \o ToCamelCase(Tail(name), FALSE)

\* The field names of the struct type inputType.GetType() of a tuple type.
StructFieldNames(t) ==
    [i \in 1..Len(t.TupleRawNames) |-> ToCamelCase(t.TupleRawNames[i], TRUE)]

\* common.Address.String(): "0x" and 40 hex digits. The case of each letter
\* follows a Keccak checksum (EIP-55), which is not computed here: letters at
\* odd positions stand in upper case, so that both cases occur.
AddressString(bytes) ==
    LET hex == EncodeToString(bytes)
    IN  <<"0", "x">> \o
        [i \in 1..Len(hex) |-> IF i % 2 = 1 THEN UpperCaseOf(hex[i]) ELSE hex[i]]

\* common.HexToAddress: an optional "0x"/"0X" is dropped, an odd number of
\* digits gets a leading "0", the digits are decoded as far as they are hex
\* digits (the decoding error is dropped), and the last AddressLength bytes,
\* padded with zeros on the left, are the address.
HexToAddress(str) ==
    LET s1 == IF Len(str) >= 2 /\ str[1] = "0" /\ str[2] \in {"x", "X"}
              THEN SubSeq(str, 3, Len(str)) ELSE str
        s2 == IF Len(s1) % 2 = 1 THEN <<"0">> \o s1 ELSE s1
        b == DecodeString(s2, <<>>).bytes
    IN  IF Len(b) >= AddressLength
        THEN SubSeq(b, Len(b) - AddressLength + 1, Len(b))
        ELSE Repeat(<<0>>, AddressLength - Len(b)) \o b

\* The conversions uintN(x) and intN(x) of lines 354-387. The integers of
\* the model are below 2^31, so reducing to 32 or 64 bits changes nothing.
TruncateUnsigned(x, bits) == IF bits >= 32 THEN x ELSE x % Pow2(bits)
TruncateSigned(x, bits) ==
    IF bits >= 32 THEN x
    ELSE ((x + Pow2(bits - 1)) % Pow2(bits)) - Pow2(bits - 1)

\* big.Int.Uint64(): the low 64 bits of the absolute value.
Uint64(x) == IF x < 0 THEN -x ELSE x
\* big.Int.Int64()
Int64(x) == x

\* reflect.Zero of the Go type of an ABI type.
RECURSIVE ZeroValue(_)
ZeroValue(t) ==
    CASE t.T = "address" -> GoValue("address", Repeat(<<0>>, AddressLength))
      [] t.T \in {"uint", "int"} -> GoValue(NativeIntKind(t), 0)
      [] t.T = "bool" -> GoValue("bool", FALSE)
      [] t.T = "string" -> GoValue("string", <<>>)
      [] t.T = "bytes" -> GoValue("bytes", <<>>)
      [] t.T = "fixedbytes" -> GoValue("bytearray", Repeat(<<0>>, t.Size))
      [] t.T = "array" -> GoValue("array", [i \in 1..t.Size |-> ZeroValue(t.Elem)])
      [] t.T = "slice" -> GoValue("slice", <<>>)
      [] t.T = "tuple" -> GoStruct(StructFieldNames(t),
                                   [i \in 1..Len(t.TupleElems) |-> ZeroValue(t.TupleElems[i])])
      [] OTHER -> GoNil

\* The byte of a character that is an ASCII digit or letter (0 for others,
\* which the sampled strings do not hold where their bytes are read).
ByteOfChar(c) ==
    IF PositionIn(DigitChars, c) > 0 THEN 47 + PositionIn(DigitChars, c)
    ELSE IF PositionIn(UpperLetters, c) > 0 THEN 64 + PositionIn(UpperLetters, c)
    ELSE IF PositionIn(LowerLetters, c) > 0 THEN 96 + PositionIn(LowerLetters, c)
    ELSE 0

(***************************************************************************)
(* encodeJSONArgument                                                      *)
(***************************************************************************)
\* reflect.Value.Len / Index: the elements of an array, slice or string
\* value; other kinds have none (HasLen is false: Len panics). A
\* common.Address is an array of 20 bytes.
HasLen(value) == value.go \in {"array", "slice", "bytes", "bytearray", "address", "string"}

Elements(value) ==
    CASE value.go \in {"array", "slice"} -> value.v
      [] value.go \in {"bytes", "bytearray", "address"} ->
            [i \in 1..Len(value.v) |-> GoValue("uint8", value.v[i])]
      [] OTHER -> [i \in 1..Len(value.v) |-> GoValue("uint8", ByteOfChar(value.v[i]))]

\* reflect.Value.FieldByName: the position of the struct field of that
\* name, or 0 (the zero Value) when the struct has no such field.
FieldByName(value, name) ==
    IF \E k \in 1..Len(value.names) : value.names[k] = name
    THEN CHOOSE k \in 1..Len(value.names) : value.names[k] = name
    ELSE 0

\* reflectionutils.GetField: the value held by a struct field; there is none
\* to take from the zero reflect.Value.
GetField(value, k) ==
    IF k = 0 THEN Panic("reflect: call of reflect.Value.CanInterface on zero Value")
    ELSE Ok(value.v[k])

\* reflectionutils.ArrayToSlice(...).([]byte): the bytes of a byte array.
ArrayToSlice(value) ==
    IF value.go = "bytearray" THEN Ok(value.v)
    ELSE Panic("reflect: value is not an array of bytes")

\* WithKey keeping only the first key an object was given.
WithKeyFirstOnly(fields, name, val) ==
    IF DOMAIN fields = {} THEN [n \in {name} |-> val] ELSE fields

\* A JSON object with one more key.
WithKey(fields, name, val) ==
    [n \in (DOMAIN fields) \cup {name} |-> IF n = name THEN val ELSE fields[n]]

RECURSIVE encodeJSONArgument(_, _)
RECURSIVE EncodeElements(_, _, _, _)
RECURSIVE EncodeFields(_, _, _, _)

\* Lines 232-241 and 244-253: the loop over the elements of an array or
\* slice, from element i on, acc holding the elements encoded so far.
EncodeElements(elemType, elems, i, acc) ==
    IF i > Len(elems) THEN Ok(JArray(acc))
    ELSE LET r == encodeJSONArgument(elemType, elems[i])
         IN  IF r.kind # "ok" THEN r
             ELSE EncodeElements(elemType, elems, i + 1, Append(acc, r.v))

\* Lines 256-265: the loop over the fields of a tuple, from field i on.
EncodeFields(t, value, i, acc) ==
    IF i > Len(t.TupleElems) THEN Ok(JObject(acc))
    ELSE IF value.go # "struct"
    THEN Panic("reflect: call of reflect.Value.FieldByName on non-struct Value")
    ELSE LET f == GetField(value, FieldByName(value, t.TupleRawNames[i]))
         IN  IF f.kind # "ok" THEN f
             ELSE LET r == encodeJSONArgument(t.TupleElems[i], f.v)
                  IN  IF r.kind # "ok" THEN r
                      ELSE EncodeFields(t, value, i + 1,
                                        WithKey(acc, t.TupleRawNames[i], r.v))

\* Lines 134-269.
encodeJSONArgument(t, value) ==
    CASE t.T = "address" ->
            IF value.go # "address"
            THEN Err("could not encode address input as the value provided is not an address type")
            ELSE Ok(JString(AddressString(value.v)))
      [] t.T \in {"uint", "int"} ->
            IF value.go # NativeIntKind(t)
            THEN Err("could not encode integer input as the value provided is not of the correct type")
            ELSE Ok(JString(FormatInt(value.v)))
      [] t.T = "bool" ->
            IF value.go # "bool"
            THEN Err("could not encode bool as the value provided is not of the correct type")
            ELSE Ok(JBool(value.v))
      [] t.T = "string" ->
            IF value.go # "string"
            THEN Err("could not encode string as the value provided is not of the correct type")
            ELSE Ok(JString(value.v))
      [] t.T = "bytes" ->
            IF value.go # "bytes"
            THEN Err("could not encode dynamic-sized bytes as the value provided is not of the correct type")
            ELSE Ok(JString(EncodeToString(value.v)))
      [] t.T = "fixedbytes" ->
            LET b == ArrayToSlice(value)
            IN  IF b.kind # "ok" THEN b ELSE Ok(JString(EncodeToString(b.v)))
      [] t.T \in {"array", "slice"} ->
            IF ~HasLen(value) THEN Panic("reflect: call of reflect.Value.Len on a value without length")
            ELSE EncodeElements(t.Elem, Elements(value), 1, <<>>)
      [] t.T = "tuple" -> EncodeFields(t, value, 1, <<>>)
      [] OTHER -> Err("could not encode argument, type is unsupported")

(***************************************************************************)
(* decodeJSONArgument                                                      *)
(***************************************************************************)
\* Lines 405-407 and 418-420: a leading "0x" or "0X" is dropped.
TrimHexPrefix(str) ==
    IF Len(str) >= 2 /\ str[1] = "0" /\ str[2] \in {"x", "X"}
    THEN SubSeq(str, 3, Len(str)) ELSE str

\* Lines 338-342: an address string that is no magic value.
DecodeAddressString(str) ==
    IF ~(Len(str) = AddressLength * 2 + 2 \/ Len(str) = AddressLength * 2)
    THEN Err("invalid address length")
    ELSE Ok(GoValue("address", HexToAddress(str)))

\* Lines 331-343: the address a JSON string stands for. strings.Cut finds
\* the prefix wherever it occurs in the string.
DecodeAddress(str, deployedContractAddr) ==
    LET cut == Cut(str, addressJSONContractNameOverridePrefix)
    IN  IF cut.found
        THEN IF cut.after \in DOMAIN deployedContractAddr
             THEN Ok(GoValue("address", deployedContractAddr[cut.after]))
             ELSE Err("contract not found in deployed contracts")
        ELSE DecodeAddressString(str)

\* Lines 354-365 and 376-387: the Go value of a parsed integer.
DecodeInteger(t, val) ==
    IF t.T = "uint"
    THEN CASE t.Size \in {8, 16, 32, 64} ->
                GoValue(NativeIntKind(t), TruncateUnsigned(Uint64(val), t.Size))
           [] OTHER -> GoValue("bigint", val)
    ELSE CASE t.Size \in {8, 16, 32, 64} ->
                GoValue(NativeIntKind(t), TruncateSigned(Int64(val), t.Size))
           [] OTHER -> GoValue("bigint", val)

\* arr[i] replaced by val
SetIndex(arr, i, val) == [arr EXCEPT ![i] = val]

RECURSIVE decodeJSONArgument(_, _, _)
RECURSIVE DecodeArrayElements(_, _, _, _, _)
RECURSIVE DecodeSliceElements(_, _, _, _, _)
RECURSIVE DecodeFields(_, _, _, _, _)

\* Lines 443-449: the loop over the JSON elements of a fixed-size array,
\* array being the Go array (of t.Size zero values at first).
DecodeArrayElements(t, arr, i, array, deployedContractAddr) ==
    IF i > Len(arr) THEN Ok(GoValue("array", array))
    ELSE LET r == decodeJSONArgument(t.Elem, arr[i], deployedContractAddr)
         IN  IF r.kind # "ok" THEN r
             ELSE IF i > t.Size THEN Panic("reflect: array index out of range")
             ELSE DecodeArrayElements(t, arr, i + 1, SetIndex(array, i, r.v),
                                      deployedContractAddr)

\* Lines 458-464: the same loop for a slice made of len(arr) elements.
DecodeSliceElements(t, arr, i, slice, deployedContractAddr) ==
    IF i > Len(arr) THEN Ok(GoValue("slice", slice))
    ELSE LET r == decodeJSONArgument(t.Elem, arr[i], deployedContractAddr)
         IN  IF r.kind # "ok" THEN r
             ELSE DecodeSliceElements(t, arr, i + 1, SetIndex(slice, i, r.v),
                                      deployedContractAddr)

\* Lines 473-484: the loop over the fields of a tuple. The test after the
\* decoding of a field value is `if !ok`, ok being the result of the map
\* lookup just above, which is true there: an error of the decoding is not
\* looked at, and st.Field(i).Set(reflect.ValueOf(nil)) panics.
DecodeFields(t, object, i, vals, deployedContractAddr) ==
    IF i > Len(t.TupleElems) THEN Ok(GoStruct(StructFieldNames(t), vals))
    ELSE IF t.TupleRawNames[i] \notin DOMAIN object
    THEN Err("value for struct field not provided")
    ELSE LET r == decodeJSONArgument(t.TupleElems[i], object[t.TupleRawNames[i]],
                                     deployedContractAddr)
         IN  IF r.kind = "panic" THEN r
             ELSE IF r.kind = "error"
             THEN Panic("reflect: call of reflect.Value.Set on zero Value")
             ELSE DecodeFields(t, object, i + 1, SetIndex(vals, i, r.v),
                               deployedContractAddr)

\* Lines 323-492.
decodeJSONArgument(t, value, deployedContractAddr) ==
    CASE t.T = "address" ->
            IF value.j # "string" THEN Err("address value should be added as string in JSON")
            ELSE DecodeAddress(value.v, deployedContractAddr)
      [] t.T \in {"uint", "int"} ->
            IF value.j # "string" THEN Err("integer value should be specified as a string in JSON")
            ELSE LET val == SetString(value.v)
                 IN  IF val.kind # "ok" THEN Err("invalid integer value")
                     ELSE Ok(DecodeInteger(t, val.v))
      [] t.T = "bool" ->
            IF value.j # "bool" THEN Err("invalid bool value")
            ELSE Ok(GoValue("bool", value.v))
      [] t.T = "string" ->
            IF value.j # "string" THEN Err("invalid string value")
            ELSE Ok(GoValue("string", value.v))
      [] t.T = "bytes" ->
            IF value.j # "string" THEN Err("bytes value should be added as string in JSON")
            ELSE LET d == DecodeString(TrimHexPrefix(value.v), <<>>)
                 IN  IF ~d.ok THEN Err("encoding/hex: invalid string")
                     ELSE Ok(GoValue("bytes", d.bytes))
      [] t.T = "fixedbytes" ->
            IF value.j # "string" THEN Err("fixed bytes value should be added as string in JSON")
            ELSE LET d == DecodeString(TrimHexPrefix(value.v), <<>>)
                 IN  IF ~d.ok THEN Err("encoding/hex: invalid string")
                     ELSE IF Len(d.bytes) # t.Size THEN Err("invalid number of bytes")
                     ELSE Ok(GoValue("bytearray", d.bytes))
      [] t.T = "array" ->
            IF value.j # "array" THEN Err("invalid JSON value, array expected")
            ELSE DecodeArrayElements(t, value.v, 1, ZeroValue(t).v, deployedContractAddr)
      [] t.T = "slice" ->
            IF value.j # "array" THEN Err("invalid JSON value, array expected")
            ELSE DecodeSliceElements(t, value.v, 1,
                                     [i \in 1..Len(value.v) |-> ZeroValue(t.Elem)],
                                     deployedContractAddr)
      [] t.T = "tuple" ->
            IF value.j # "object" THEN Err("invalid JSON value, object expected")
            ELSE DecodeFields(t, value.v, 1, ZeroValue(t).v, deployedContractAddr)
      [] OTHER -> Err("argument type is not supported")

(***************************************************************************)
(* The ABI value JSON encoding applied to sample types, values and JSON    *)
(***************************************************************************)
MaxSliceLen == 2   \* slices hold 0..MaxSliceLen elements
MaxArrayLen == 2   \* fixed-size arrays hold 1..MaxArrayLen elements

\* All sequences of elements of S of a length in lens.
SeqsOf(S, lens) == UNION { [1..n -> S] : n \in lens }

\* Some addresses: zero, one with letters among its digits, one with
\* different bytes.
SampleAddresses ==
    { Repeat(<<0>>, AddressLength),
      Repeat(<<171>>, AddressLength),
      [i \in 1..AddressLength |-> 11 * i] }

\* The name of a deployed contract, of one that is not deployed.
DeployedName == <<"A">>
UndeployedName == <<"B">>

\* The deployedContractAddr maps handed to the decoding.
DeployedMaps ==
    { [n \in {} |-> Repeat(<<0>>, AddressLength)],
      [n \in {DeployedName} |-> Repeat(<<171>>, AddressLength)] }

\* ABI types: every elementary kind, sized integers and big integers,
\* arrays, slices and tuples of them, and nested ones. The tuple fields
\* are named as Solidity names them: in lower case, in upper case, with
\* an underscore.
ElementaryTypes ==
    { AddressTy, UintTy(8), UintTy(64), UintTy(256), IntTy(8), IntTy(16), IntTy(256),
      BoolTy, StringTy, BytesTy, FixedBytesTy(2) }

TupleTypes ==
    { TupleTy(<<<<"X">>>>, <<UintTy(8)>>),
      TupleTy(<<<<"x">>>>, <<UintTy(8)>>),
      TupleTy(<<<<"A", "b">>, <<"F", "l", "a", "g">>>>, <<IntTy(8), BoolTy>>),
      TupleTy(<<<<"t", "o">>, <<"a", "m", "o", "u", "n", "t">>>>, <<AddressTy, UintTy(256)>>),
      TupleTy(<<<<"_", "v">>>>, <<BoolTy>>) }

ArrayLens == IF MaxArrayLen >= 2 THEN {MaxArrayLen - 1, MaxArrayLen} ELSE {MaxArrayLen}

CompositeTypes ==
    { ArrayTy(e, n) : e \in {UintTy(8), BoolTy}, n \in ArrayLens }
    \cup { SliceTy(e) : e \in {BoolTy, IntTy(8), BytesTy} }
    \cup TupleTypes

NestedTypes ==
    { SliceTy(ArrayTy(BoolTy, MaxArrayLen)),
      ArrayTy(SliceTy(BoolTy), MaxArrayLen),
      SliceTy(TupleTy(<<<<"X">>>>, <<UintTy(8)>>)),
      TupleTy(<<<<"V", "s">>, <<"I", "n">>>>,
              <<SliceTy(BoolTy), TupleTy(<<<<"X">>>>, <<UintTy(8)>>)>>),
      TupleTy(<<<<"i", "n", "n", "e", "r">>>>, <<ArrayTy(BoolTy, MaxArrayLen)>>) }

AbiTypes == ElementaryTypes \cup CompositeTypes \cup NestedTypes \cup {FixedPointTy}

\* The sequences built from one choice per position: all tuples whose i-th
\* component is in sets[i].
RECURSIVE Product(_)
Product(sets) ==
    IF Len(sets) = 0 THEN {<<>>}
    ELSE { <<x>> \o rest : x \in sets[1], rest \in Product(Tail(sets)) }

\* The Go values that conform to an ABI type (a sample of them for the
\* elementary types, all combinations of the samples for the others).
RECURSIVE ValuesOf(_)
ValuesOf(t) ==
    CASE t.T = "address" -> { GoValue("address", a) : a \in SampleAddresses }
      [] t.T = "uint" ->
            { GoValue(NativeIntKind(t), n) :
                n \in IF t.Size = 8 THEN {0, 9, 255} ELSE {0, 10, 1000000} }
      [] t.T = "int" ->
            { GoValue(NativeIntKind(t), n) :
                n \in IF t.Size = 8 THEN {-128, -1, 0, 127} ELSE {-32768, 0, 8} }
      [] t.T = "bool" -> { GoValue("bool", b) : b \in BOOLEAN }
      [] t.T = "string" ->
            { GoValue("string", str) :
                str \in { <<>>, <<"h", "i">>, <<"0", "x", "f", "f">>,
                          addressJSONContractNameOverridePrefix \o DeployedName } }
      [] t.T = "bytes" ->
            { GoValue("bytes", b) : b \in { <<>>, <<0>>, <<255, 16>>, <<1, 2, 3>> } }
      [] t.T = "fixedbytes" ->
            { GoValue("bytearray", b) :
                b \in { Repeat(<<0>>, t.Size), [i \in 1..t.Size |-> 250 + i] } }
      [] t.T = "array" ->
            { GoValue("array", es) : es \in SeqsOf(ValuesOf(t.Elem), {t.Size}) }
      [] t.T = "slice" ->
            { GoValue("slice", es) : es \in SeqsOf(ValuesOf(t.Elem), 0..MaxSliceLen) }
      [] t.T = "tuple" ->
            { GoStruct(StructFieldNames(t), vs) :
                vs \in Product([i \in 1..Len(t.TupleElems) |-> ValuesOf(t.TupleElems[i])]) }
      [] OTHER -> {}

\* The address strings of a JSON file: magic values of a deployed and of an
\* undeployed contract, text around a magic value, plain addresses with
\* and without "0x", strings of another length.
AddressJSONStrings ==
    << addressJSONContractNameOverridePrefix \o DeployedName,
       addressJSONContractNameOverridePrefix \o UndeployedName,
       addressJSONContractNameOverridePrefix,
       <<"x">> \o addressJSONContractNameOverridePrefix \o DeployedName,
       <<"0", "x">> \o addressJSONContractNameOverridePrefix \o DeployedName,
       <<"0", "x">> \o Repeat(<<"a", "B">>, AddressLength),
       Repeat(<<"0", "1">>, AddressLength),
       Repeat(<<"z">>, AddressLength * 2),
       <<"0", "x", "1", "2">>,
       <<>> >>

\* JSON values that are no encoding of a value of the type they are
\* decoded as, or a differently written one.
OtherJSONValues ==
    << JNull, JNumber(1), JBool(TRUE), JString(<<"z", "z">>), JString(<<"0", "x", "1">>),
       JString(<<"0", "1", "0">>), JString(<<"-", "0", "x", "f", "f">>),
       JString(<<"3", "0", "0">>), JString(<<"1", "_", "0">>),
       JArray(<<>>), JArray(<<JBool(TRUE)>>),
       JArray(<<JBool(TRUE), JBool(FALSE), JBool(TRUE)>>),
       JArray(<<JString(<<"1">>), JNull>>),
       JObject([n \in {} |-> JNull]),
       JObject([n \in {<<"X">>} |-> JNull]),
       JObject([n \in {<<"x">>} |-> JString(<<"7">>)]),
       JObject([n \in {<<"X">>} |-> JString(<<"2", "5", "6">>)]) >>

\* The JSON values handed to the decoding of type t, as a list.
JSONValuesOf(t) ==
    IF t.T = "address"
    THEN [i \in 1..Len(AddressJSONStrings) |-> JString(AddressJSONStrings[i])] \o <<JNull>>
    ELSE OtherJSONValues

\* encodeJSONArgument and then decodeJSONArgument of what it returned; the
\* decoding does not run when the encoding failed.
RoundTrip(t, v, deployedContractAddr) ==
    LET encoded == encodeJSONArgument(t, v)
        decoded == IF encoded.kind = "ok"
                   THEN decodeJSONArgument(t, encoded.v, deployedContractAddr)
                   ELSE NoReturn
    IN  [kind |-> IF "panic" \in {encoded.kind, decoded.kind} THEN "panic"
                  ELSE IF "error" \in {encoded.kind, decoded.kind} THEN "error"
                  ELSE "ok",
         encoded |-> encoded,
         decoded |-> decoded]

\* A value is encoded and the encoding decoded.
ApplyRoundTrip ==
    /\ call = NoCall
    /\ \E t \in AbiTypes \ {FixedPointTy} : \E v \in ValuesOf(t) : \E m \in DeployedMaps :
         /\ call' = [op |-> "RoundTrip", t |-> t, v |-> v, deployedContractAddr |-> m]
         /\ result' = RoundTrip(t, v, m)
    /\ UNCHANGED <<chooserVars, shrinkVars>>

\* A value of a type is encoded, the value being of that type or not.
ApplyEncode ==
    /\ call = NoCall
    /\ \E t \in AbiTypes :
       \E u \in {AddressTy, UintTy(8), BoolTy, FixedBytesTy(2), SliceTy(BoolTy),
                 ArrayTy(BoolTy, MaxArrayLen), TupleTy(<<<<"x">>>>, <<UintTy(8)>>)} :
       \E v \in ValuesOf(u) :
         /\ call' = [op |-> "encodeJSONArgument", t |-> t, v |-> v]
         /\ result' = encodeJSONArgument(t, v)
    /\ UNCHANGED <<chooserVars, shrinkVars>>

\* A JSON value is decoded.
ApplyDecode ==
    /\ call = NoCall
    /\ \E t \in AbiTypes : \E i \in 1..Len(JSONValuesOf(t)) : \E m \in DeployedMaps :
         LET value == JSONValuesOf(t)[i]
         IN  /\ call' = [op |-> "decodeJSONArgument", t |-> t, value |-> value,
                         deployedContractAddr |-> m]
             /\ result' = decodeJSONArgument(t, value, m)
    /\ UNCHANGED <<chooserVars, shrinkVars>>

(***************************************************************************)
(* DecodeJSONArgumentsFromMap and DecodeJSONArgumentsFromSlice             *)
(***************************************************************************)
MaxInputs == 2     \* ABI inputs of a method: 0..MaxInputs

\* What the two functions return: the decoded arguments (nil with an
\* error) and the error.
ReturnArguments(decodedArgs) == [kind |-> "ok", decodedArgs |-> Ptr(decodedArgs), err |-> ""]
ReturnNoArguments(e) == [kind |-> "error", decodedArgs |-> Nil, err |-> e]

\* Lines 277-291: the loop of DecodeJSONArgumentsFromMap from input i on,
\* decodedArgs holding the arguments decoded so far.
RECURSIVE DecodeFromMapLoop(_, _, _, _, _)
DecodeFromMapLoop(inputs, values, deployedContractAddr, i, decodedArgs) ==
    IF i > Len(inputs) THEN ReturnArguments(decodedArgs)
    ELSE IF inputs[i].Name \notin DOMAIN values
    THEN ReturnNoArguments("constructor argument not provided")
    ELSE LET arg == decodeJSONArgument(inputs[i].Type, values[inputs[i].Name],
                                       deployedContractAddr)
         IN  IF arg.kind = "panic" THEN arg
             ELSE IF arg.kind # "ok"
             THEN ReturnNoArguments("ABI value argument could not be decoded from JSON")
             ELSE DecodeFromMapLoop(inputs, values, deployedContractAddr, i + 1,
                                    Append(decodedArgs, arg.v))

\* DecodeJSONArgumentsFromMap (lines 274-293)
DecodeJSONArgumentsFromMap(inputs, values, deployedContractAddr) ==
    DecodeFromMapLoop(inputs, values, deployedContractAddr, 1, <<>>)

\* Lines 307-316: the loop of DecodeJSONArgumentsFromSlice from input i on.
RECURSIVE DecodeFromSliceLoop(_, _, _, _, _)
DecodeFromSliceLoop(inputs, values, deployedContractAddr, i, decodedArgs) ==
    IF i > Len(inputs) THEN ReturnArguments(decodedArgs)
    ELSE LET arg == decodeJSONArgument(inputs[i].Type, values[i], deployedContractAddr)
         IN  IF arg.kind = "panic" THEN arg
             ELSE IF arg.kind # "ok"
             THEN ReturnNoArguments("ABI value argument could not be decoded from JSON")
             ELSE DecodeFromSliceLoop(inputs, values, deployedContractAddr, i + 1,
                                      Append(decodedArgs, arg.v))

\* DecodeJSONArgumentsFromSlice (lines 298-318)
DecodeJSONArgumentsFromSlice(inputs, values, deployedContractAddr) ==
    IF Len(values) # Len(inputs)
    THEN ReturnNoArguments("constructor argument count mismatch")
    ELSE DecodeFromSliceLoop(inputs, values, deployedContractAddr, 1, <<>>)

\* An abi.Argument
Argument(name, type) == [Name |-> name, Type |-> type]

\* The inputs of a method: an integer, a boolean and a tuple.
SampleArguments ==
    << Argument(<<"n">>, UintTy(8)),
       Argument(<<"f">>, BoolTy),
       Argument(<<"t">>, TupleTy(<<<<"X">>>>, <<UintTy(8)>>)) >>

\* The JSON values supplied for them: an integer string, a boolean, a tuple
\* whose field is null, a tuple holding its field.
ArgumentJSONValues ==
    << JString(<<"7">>),
       JBool(TRUE),
       JObject([n \in {<<"X">>} |-> JNull]),
       JObject([n \in {<<"X">>} |-> JString(<<"7">>)]) >>

\* Lists of the first k things, of the lengths lens, as their positions.
Positions(k, lens) == UNION { [1..len -> 1..k] : len \in lens }

\* JSON values are decoded for the inputs of a method, from a list of as
\* many values, of one fewer and of one more (no input is an address: the
\* map of deployed contracts is one that names a contract).
ApplyDecodeFromSlice ==
    \E is \in Positions(Len(SampleArguments), 0..MaxInputs) :
    \E vs \in Positions(Len(ArgumentJSONValues), { n \in 0..(Len(is) + 1) : n >= Len(is) - 1 }) :
    \E m \in { d \in DeployedMaps : DeployedName \in DOMAIN d } :
    \E inputs \in {[i \in 1..Len(is) |-> SampleArguments[is[i]]]} :
    \E values \in {[i \in 1..Len(vs) |-> ArgumentJSONValues[vs[i]]]} :
        /\ call = NoCall
        /\ call' = [op |-> "DecodeJSONArgumentsFromSlice", inputs |-> inputs,
                    values |-> values, deployedContractAddr |-> m]
        /\ result' = DecodeJSONArgumentsFromSlice(inputs, values, m)
        /\ UNCHANGED <<chooserVars, shrinkVars>>

\* JSON values are decoded for the inputs of a method, from a map by name.
ApplyDecodeFromMap ==
    \E is \in Positions(Len(SampleArguments), 0..MaxInputs) :
    \E names \in SUBSET { SampleArguments[i].Name : i \in 1..Len(SampleArguments) } :
    \E vs \in [names -> 1..Len(ArgumentJSONValues)] :
    \E m \in { d \in DeployedMaps : DeployedName \in DOMAIN d } :
    \E inputs \in {[i \in 1..Len(is) |-> SampleArguments[is[i]]]} :
    \E values \in {[n \in names |-> ArgumentJSONValues[vs[n]]]} :
        /\ call = NoCall
        /\ call' = [op |-> "DecodeJSONArgumentsFromMap", inputs |-> inputs,
                    values |-> values, deployedContractAddr |-> m]
        /\ result' = DecodeJSONArgumentsFromMap(inputs, values, m)
        /\ UNCHANGED <<chooserVars, shrinkVars>>

NextABI ==
    \/ ApplyRoundTrip
    \/ ApplyEncode
    \/ ApplyDecode
    \/ ApplyDecodeFromSlice
    \/ ApplyDecodeFromMap
    \/ ReturnPure

SpecABI == InitPure /\ [][NextABI]_vars

(***************************************************************************)
(* ShrinkingValueGenerator: integers                                       *)
(***************************************************************************)
MaxInput == 3      \* integers to shrink: -MaxInput..MaxInput and the bounds' neighbours
MaxLiteral == 5    \* the largest literal of the sampled value sets

\* The bit lengths of the sampled integer types.
BitLengths == {8, 16}

\* utils.GetIntegerConstraints: the least and the greatest integer of a
\* signedness and bit length.
GetIntegerConstraints(signed, bitLength) ==
    IF signed
    THEN [min |-> -Pow2(bitLength - 1), max |-> Pow2(bitLength - 1) - 1]
    ELSE [min |-> 0, max |-> Pow2(bitLength) - 1]

\* utils.ConstrainIntegerToBounds: b when it lies in min..max, and
\* otherwise b wrapped around into that range. b is a *big.Int: reading a
\* nil one is a nil pointer dereference.
ConstrainIntegerToBounds(b, min, max) ==
    IF b = Nil THEN Panic("invalid memory address or nil pointer dereference")
    ELSE Ok(min + ((Deref(b) - min) % (max - min + 1)))

\* ValueSet.Integers(): the integers of the set, as a list.
RECURSIVE Integers(_)
Integers(vs) ==
    IF vs = {} THEN <<>>
    ELSE LET least == CHOOSE n \in vs : \A k \in vs : n <= k
         IN  <<least>> \o Integers(vs \ {least})

\* NewShrinkingValueGenerator without the last AddInteger of line 33.
NewShrinkingValueGeneratorNoTwo(vs) == [valueSet |-> vs \cup {0, 1}]

\* NewShrinkingValueGenerator: the value set of the generator holds 0, 1
\* and 2 besides what it held before.
NewShrinkingValueGenerator(vs) == [valueSet |-> vs \cup {0, 1, 2}]

\* The number of integer shrinking methods.
NumIntegerShrinkingMethods == 2

\* integerShrinkingMethods[method - 1](g, x, inputs...), rnd being the
\* number g.randomProvider.Intn(len(inputs)) + 1. The first method declares
\* r without a value (a nil *big.Int) and assigns it only when x is not 0.
integerShrinkingMethods(method, x, inputs, rnd) ==
    IF method = 1
    THEN IF x > 0 THEN Ptr(x - inputs[rnd])
         ELSE IF x < 0 THEN Ptr(x + inputs[rnd])
         ELSE Nil
    ELSE Ptr(x \div 2)

\* Lines 65-72: the integers of the value set and the bounds of the range.
ShrinkInputs(g, signed, bitLength) ==
    LET c == GetIntegerConstraints(signed, bitLength)
    IN  Integers(g.valueSet) \o (IF signed THEN <<c.min, c.max>> ELSE <<c.max>>)

\* shrinkIntegerInternal, inputIdx, method and rnd being the numbers the
\* random provider returns (counted from 1).
shrinkIntegerInternal(g, i, signed, bitLength, inputIdx, method, rnd) ==
    LET c == GetIntegerConstraints(signed, bitLength)
        inputs == ShrinkInputs(g, signed, bitLength)
        input == IF i # Nil THEN i ELSE Ptr(inputs[inputIdx])
        constrained == ConstrainIntegerToBounds(input, c.min, c.max)
        shrunk == integerShrinkingMethods(method, constrained.v, inputs, rnd)
    IN  ConstrainIntegerToBounds(shrunk, c.min, c.max)

\* ShrinkingValueGenerator.MutateInteger
MutateInteger(g, i, signed, bitLength, inputIdx, method, rnd) ==
    shrinkIntegerInternal(g, i, signed, bitLength, inputIdx, method, rnd)

\* The value sets the generator is made with.
ValueSets == { {}, {MaxLiteral}, {-MaxLiteral, 1, 100} }

\* The integers handed to MutateInteger for a signedness and bit length:
\* nil, small numbers, and the numbers at and next to the bounds.
IntegerInputs(signed, bitLength) ==
    LET c == GetIntegerConstraints(signed, bitLength)
    IN  {Nil} \cup { Ptr(n) : n \in (-MaxInput..MaxInput)
                                  \cup {c.min - 1, c.min, c.min + 1,
                                        c.max - 1, c.max, c.max + 1} }

(***************************************************************************)
(* ShrinkingValueGenerator: strings and addresses                          *)
(***************************************************************************)
MaxStringLen == 2  \* strings to shrink hold 0..MaxStringLen runes

\* unicode/utf8.RuneError, the rune of a byte that is no UTF-8.
RuneError == 65533

\* The UTF-8 encoding of a rune (utf8.AppendRune): one byte below 128, two
\* below 2048, three below 65536, four above; a surrogate or a rune
\* beyond 0x10FFFF is encoded as RuneError.
EncodeRune(r) ==
    IF r < 0 \/ r > 1114111 \/ (55296 <= r /\ r <= 57343)
    THEN <<239, 191, 189>>
    ELSE IF r < 128 THEN <<r>>
    ELSE IF r < 2048 THEN <<192 + (r \div 64), 128 + (r % 64)>>
    ELSE IF r < 65536
    THEN <<224 + (r \div 4096), 128 + ((r \div 64) % 64), 128 + (r % 64)>>
    ELSE <<240 + (r \div 262144), 128 + ((r \div 4096) % 64),
           128 + ((r \div 64) % 64), 128 + (r % 64)>>

\* string(r) of a []rune.
RECURSIVE EncodeRunes(_)
EncodeRunes(rs) ==
    IF Len(rs) = 0 THEN <<>> ELSE EncodeRune(rs[1]) \o EncodeRunes(Tail(rs))

\* The number of bytes of the encoding that starts with byte b (0 when b
\* starts none), and the range the second byte must lie in.
RuneLen(b) ==
    IF b < 128 THEN 1
    ELSE IF 194 <= b /\ b <= 223 THEN 2
    ELSE IF 224 <= b /\ b <= 239 THEN 3
    ELSE IF 240 <= b /\ b <= 244 THEN 4
    ELSE 0

SecondByteRange(b) ==
    CASE b = 224 -> 160..191
      [] b = 237 -> 128..159
      [] b = 240 -> 144..191
      [] b = 244 -> 128..143
      [] OTHER -> 128..191

\* utf8.DecodeRuneInString at the start of the bytes bs: the rune and the
\* number of bytes it takes; RuneError and one byte for what is no
\* well-formed encoding.
DecodeRune(bs) ==
    LET n == RuneLen(bs[1])
        wellFormed ==
            /\ n >= 1
            /\ Len(bs) >= n
            /\ n >= 2 => bs[2] \in SecondByteRange(bs[1])
            /\ \A k \in 3..n : bs[k] \in 128..191
    IN  IF ~wellFormed THEN [rune |-> RuneError, size |-> 1]
        ELSE [rune |-> CASE n = 1 -> bs[1]
                         [] n = 2 -> (bs[1] % 32) * 64 + (bs[2] % 64)
                         [] n = 3 -> (bs[1] % 16) * 4096 + (bs[2] % 64) * 64 + (bs[3] % 64)
                         [] OTHER -> (bs[1] % 8) * 262144 + (bs[2] % 64) * 4096
                                     + (bs[3] % 64) * 64 + (bs[4] % 64),
              size |-> n]

\* []rune(s) of a string, the string being its bytes.
RECURSIVE Runes(_)
Runes(bs) ==
    IF Len(bs) = 0 THEN <<>>
    ELSE LET d == DecodeRune(bs)
         IN  <<d.rune>> \o Runes(SubSeq(bs, d.size + 1, Len(bs)))

\* The number of string shrinking methods.
NumShrinkMutationMethods == 2

\* What Intn(n) + 1 can return; Intn is not called where n is 0.
Intn(n) == IF n = 0 THEN {1} ELSE 1..n

\* shrinkMutationMethods[method - 1](g, s), rnd being the number
\* g.randomProvider.Intn(...) + 1 of the method. The first method sets a
\* rune of []rune(s) to 0. The second takes len(s), the number of bytes,
\* and removes the byte at the drawn position.
shrinkMutationMethods(method, s, rnd) ==
    IF method = 1
    THEN LET r == Runes(s)
         IN  IF Len(r) = 0 THEN EncodeRunes(r)
             ELSE EncodeRunes([r EXCEPT ![rnd] = 0])
    ELSE IF Len(s) = 0 THEN s
         ELSE SubSeq(s, 1, rnd - 1) \o SubSeq(s, rnd + 1, Len(s))

\* The numbers the random provider can return to a method for the string s.
ShrinkMutationDraws(method, s) ==
    IF method = 1 THEN Intn(Len(Runes(s))) ELSE Intn(Len(s))

\* shrinkStringInternal
shrinkStringInternal(s, method, rnd) == shrinkMutationMethods(method, s, rnd)

\* ShrinkingValueGenerator.MutateString
MutateString(s, method, rnd) == shrinkStringInternal(s, method, rnd)

\* ShrinkingValueGenerator.MutateAddress: the zero address, whatever addr.
MutateAddress(addr) == Repeat(<<0>>, AddressLength)

\* The runes of the sampled strings: "a", "z", e acute (two bytes), the
\* euro sign (three bytes), an emoji (four bytes).
SampleRunes == {97, 122, 233, 8364, 128512}

\* The strings handed to MutateString, as Go holds them: in UTF-8.
SampleStrings == { EncodeRunes(rs) : rs \in SeqsOf(SampleRunes, 0..MaxStringLen) }

(***************************************************************************)
(* The shrinking generator made on a value set and used                    *)
(***************************************************************************)
InitShrink ==
    /\ choices = NewChooserWithRand.choices
    /\ totalWeight = NewChooserWithRand.totalWeight
    /\ lockHolder = 0
    /\ pc = [t \in Threads |-> "idle"]
    /\ args = [t \in Threads |-> <<>>]
    /\ idx = [t \in Threads |-> 0]
    /\ ret = [t \in Threads |-> NoReturn]
    /\ panicked = FALSE
    /\ lastAccess = NoAccess
    /\ call = NoCall
    /\ result = NoReturn
    /\ valueSet \in ValueSets
    /\ generator = NoGenerator

\* NewShrinkingValueGenerator(valueSet, randomProvider): the generator
\* holds the caller's ValueSet (a pointer), which gets the integers added.
ApplyNewShrinkingValueGenerator ==
    /\ generator = NoGenerator
    /\ generator' = NewShrinkingValueGenerator(valueSet)
    /\ valueSet' = generator'.valueSet
    /\ UNCHANGED <<chooserVars, call, result>>

\* One call of MutateInteger on the generator.
ApplyMutateInteger ==
    /\ generator # NoGenerator
    /\ call = NoCall
    /\ \E signed \in BOOLEAN, bitLength \in BitLengths :
         LET g == generator
             n == Len(ShrinkInputs(g, signed, bitLength))
         IN  \E i \in IntegerInputs(signed, bitLength), inputIdx \in 1..n,
                method \in 1..NumIntegerShrinkingMethods, rnd \in 1..n :
               /\ call' = [op |-> "MutateInteger", g |-> g, i |-> i, signed |-> signed,
                           bitLength |-> bitLength, inputIdx |-> inputIdx,
                           method |-> method, rnd |-> rnd]
               /\ result' = MutateInteger(g, i, signed, bitLength, inputIdx, method, rnd)
    /\ UNCHANGED <<chooserVars, shrinkVars>>

\* One call of MutateString on the generator.
ApplyMutateString ==
    /\ generator # NoGenerator
    /\ call = NoCall
    /\ \E s \in SampleStrings, method \in 1..NumShrinkMutationMethods :
       \E rnd \in ShrinkMutationDraws(method, s) :
         /\ call' = [op |-> "MutateString", s |-> s, method |-> method, rnd |-> rnd]
         /\ result' = Ok(MutateString(s, method, rnd))
    /\ UNCHANGED <<chooserVars, shrinkVars>>

\* One call of MutateAddress on the generator.
ApplyMutateAddress ==
    /\ generator # NoGenerator
    /\ call = NoCall
    /\ \E addr \in SampleAddresses :
         /\ call' = [op |-> "MutateAddress", addr |-> addr]
         /\ result' = Ok(MutateAddress(addr))
    /\ UNCHANGED <<chooserVars, shrinkVars>>

NextShrink ==
    \/ ApplyNewShrinkingValueGenerator
    \/ ApplyMutateInteger
    \/ ApplyMutateString
    \/ ApplyMutateAddress
    \/ ReturnPure

SpecShrink == InitShrink /\ [][NextShrink]_vars

(***************************************************************************)
(* CallMessage.MarshalJSON and CallMessage.UnmarshalJSON                   *)
(***************************************************************************)
\* The hex digits of n > 0, without leading zeros.
RECURSIVE HexDigits(_)
HexDigits(n) ==
    IF n = 0 THEN <<>> ELSE HexDigits(n \div 16) \o <<HexDigitChars[(n % 16) + 1]>>

\* hexutil.EncodeBig, the text of a hexutil.Big: "0x0" for zero, otherwise
\* "0x" (after "-" for a negative number) and the hex digits.
EncodeBig(n) ==
    IF n = 0 THEN <<"0", "x", "0">>
    ELSE IF n > 0 THEN <<"0", "x">> \o HexDigits(n)
    ELSE <<"-", "0", "x">> \o HexDigits(-n)

\* hexutil.Big.UnmarshalText: the text must be "0x" and at least one hex
\* digit, at most 64 of them, without a leading zero digit unless it is
\* "0x0".
DecodeBig(str) ==
    LET digits == SubSeq(str, 3, Len(str))
    IN  IF Len(str) = 0 THEN Err("empty hex string")
        ELSE IF ~(Len(str) >= 2 /\ str[1] = "0" /\ str[2] \in {"x", "X"})
        THEN Err("hex string without 0x prefix")
        ELSE IF Len(digits) = 0 THEN Err("hex string \"0x\"")
        ELSE IF Len(digits) > 1 /\ digits[1] = "0" THEN Err("hex number with leading zero digits")
        ELSE IF Len(digits) > 64 THEN Err("hex number > 256 bits")
        ELSE IF \E k \in 1..Len(digits) : FromHexChar(digits[k]) < 0 THEN Err("invalid hex string")
        ELSE Ok(DigitsValue(digits, 16, 0))

\* hexutil.Bytes.MarshalText (also common.Address.MarshalText): "0x" and
\* two lower-case hex digits a byte.
EncodeBytes(bs) == <<"0", "x">> \o EncodeToString(bs)

\* hexutil.Bytes.UnmarshalText: the empty text is no bytes; otherwise "0x"
\* and an even number of hex digits.
DecodeBytes(str) ==
    LET digits == SubSeq(str, 3, Len(str))
        d == DecodeString(digits, <<>>)
    IN  IF Len(str) = 0 THEN Ok(<<>>)
        ELSE IF ~(Len(str) >= 2 /\ str[1] = "0" /\ str[2] \in {"x", "X"})
        THEN Err("hex string without 0x prefix")
        ELSE IF Len(digits) % 2 = 1 THEN Err("hex string of odd length")
        ELSE IF ~d.ok THEN Err("invalid hex string")
        ELSE Ok(d.bytes)

\* common.Address.UnmarshalJSON (hexutil.UnmarshalFixedJSON): as the bytes,
\* and the length must be that of an address.
DecodeFixedAddress(str) ==
    LET d == DecodeBytes(str)
    IN  IF d.kind # "ok" THEN d
        ELSE IF Len(d.v) # AddressLength THEN Err("hex string has wrong length for common.Address")
        ELSE d

\* CallMessageDataAbiValues.MarshalJSON: the method signature and the input
\* values, integers being decimal strings.
MarshalDataAbiValues(d) ==
    [methodSignature |-> JString(d.methodSignature),
     inputValues |-> JArray([k \in 1..Len(d.inputValues) |->
                                JString(FormatInt(d.inputValues[k]))])]

\* CallMessageDataAbiValues.UnmarshalJSON
UnmarshalDataAbiValues(j) ==
    IF \E k \in 1..Len(j.inputValues.v) : SetString(j.inputValues.v[k].v).kind # "ok"
    THEN Err("invalid integer value")
    ELSE Ok([methodSignature |-> j.methodSignature.v,
             inputValues |-> [k \in 1..Len(j.inputValues.v) |->
                                SetString(j.inputValues.v[k].v).v]])

\* json.Marshal of a *hexutil.Big field: null for the nil pointer.
MarshalBigField(p) == IF p = Nil THEN JNull ELSE JString(EncodeBig(Deref(p)))

\* The JSON keys written whatever the message holds.
MandatoryKeys == {"from", "to", "nonce", "value", "gas", "gasPrice", "gasFeeCap", "gasTipCap"}

\* MarshalJSON writing the fee cap under "gasTipCap" and the tip cap under
\* "gasFeeCap".
MarshalJSONCapsSwapped(c) ==
    [from |-> JString(EncodeBytes(c.MsgFrom)),
     to |-> IF c.MsgTo = Nil THEN JNull ELSE JString(EncodeBytes(Deref(c.MsgTo))),
     nonce |-> JNumber(c.MsgNonce),
     value |-> MarshalBigField(c.MsgValue),
     gas |-> JNumber(c.MsgGas),
     gasPrice |-> MarshalBigField(c.MsgGasPrice),
     gasFeeCap |-> MarshalBigField(c.MsgGasTipCap),
     gasTipCap |-> MarshalBigField(c.MsgGasFeeCap)]
    @@ (IF Len(c.MsgData) > 0 THEN [data |-> JString(EncodeBytes(c.MsgData))] ELSE <<>>)
    @@ (IF c.MsgDataAbiValues # Nil
        THEN [dataAbiValues |-> JObject(MarshalDataAbiValues(Deref(c.MsgDataAbiValues)))]
        ELSE <<>>)

\* CallMessage.MarshalJSON (lines 510-537): the JSON object json.Marshal
\* writes for enc; "data" and "dataAbiValues" are omitted when empty.
MarshalJSON(c) ==
    [from |-> JString(EncodeBytes(c.MsgFrom)),
     to |-> IF c.MsgTo = Nil THEN JNull ELSE JString(EncodeBytes(Deref(c.MsgTo))),
     nonce |-> JNumber(c.MsgNonce),
     value |-> MarshalBigField(c.MsgValue),
     gas |-> JNumber(c.MsgGas),
     gasPrice |-> MarshalBigField(c.MsgGasPrice),
     gasFeeCap |-> MarshalBigField(c.MsgGasFeeCap),
     gasTipCap |-> MarshalBigField(c.MsgGasTipCap)]
    @@ (IF Len(c.MsgData) > 0 THEN [data |-> JString(EncodeBytes(c.MsgData))] ELSE <<>>)
    @@ (IF c.MsgDataAbiValues # Nil
        THEN [dataAbiValues |-> JObject(MarshalDataAbiValues(Deref(c.MsgDataAbiValues)))]
        ELSE <<>>)

\* The empty CallMessage UnmarshalJSON is called on.
EmptyCallMessage ==
    [MsgFrom |-> Repeat(<<0>>, AddressLength), MsgTo |-> Nil, MsgNonce |-> 0,
     MsgValue |-> Nil, MsgGas |-> 0, MsgGasPrice |-> Nil, MsgGasFeeCap |-> Nil,
     MsgGasTipCap |-> Nil, MsgData |-> <<>>, MsgDataAbiValues |-> Nil]

\* json.Unmarshal into a pointer field of dec: Nil when the key is missing
\* or null, otherwise what the field's decoder returns for the value.
UnmarshalField(input, key, kind) ==
    IF key \notin DOMAIN input \/ input[key].j = "null" THEN Ok(Nil)
    ELSE LET j == input[key]
         IN  CASE kind = "uint64" ->
                    IF j.j = "number" /\ j.v >= 0 THEN Ok(Ptr(j.v))
                    ELSE Err("json: cannot unmarshal into Go value of type uint64")
               [] kind = "dataAbiValues" ->
                    IF j.j # "object" THEN Err("json: cannot unmarshal into CallMessageDataAbiValues")
                    ELSE LET d == UnmarshalDataAbiValues(j.v)
                         IN  IF d.kind = "ok" THEN Ok(Ptr(d.v)) ELSE d
               [] OTHER ->
                    IF j.j # "string" THEN Err("json: cannot unmarshal non-string")
                    ELSE LET d == CASE kind = "address" -> DecodeFixedAddress(j.v)
                                    [] kind = "big" -> DecodeBig(j.v)
                                    [] OTHER -> DecodeBytes(j.v)
                         IN  IF d.kind = "ok" THEN Ok(Ptr(d.v)) ELSE d

\* The keys of the JSON object and the Go type of the field of each.
CallMessageFields ==
    << <<"from", "address">>, <<"to", "address">>, <<"nonce", "uint64">>,
       <<"value", "big">>, <<"gas", "uint64">>, <<"gasPrice", "big">>,
       <<"gasFeeCap", "big">>, <<"gasTipCap", "big">>, <<"data", "bytes">>,
       <<"dataAbiValues", "dataAbiValues">> >>

\* CallMessage.UnmarshalJSON (lines 540-588) called on the message c: an
\* error of json.Unmarshal, or c with every field set whose key held a value.
UnmarshalJSON(c, input) ==
    LET dec == [k \in 1..Len(CallMessageFields) |->
                    UnmarshalField(input, CallMessageFields[k][1], CallMessageFields[k][2])]
        set(k, old, pointer) == IF dec[k].v = Nil THEN old
                                ELSE IF pointer THEN dec[k].v ELSE Deref(dec[k].v)
    IN  IF \E k \in 1..Len(dec) : dec[k].kind # "ok"
        THEN CHOOSE r \in { dec[k] : k \in { i \in 1..Len(dec) : dec[i].kind # "ok" } } : TRUE
        ELSE Ok([MsgFrom |-> set(1, c.MsgFrom, FALSE),
                 MsgTo |-> set(2, c.MsgTo, TRUE),
                 MsgNonce |-> set(3, c.MsgNonce, FALSE),
                 MsgValue |-> set(4, c.MsgValue, TRUE),
                 MsgGas |-> set(5, c.MsgGas, FALSE),
                 MsgGasPrice |-> set(6, c.MsgGasPrice, TRUE),
                 MsgGasFeeCap |-> set(7, c.MsgGasFeeCap, TRUE),
                 MsgGasTipCap |-> set(8, c.MsgGasTipCap, TRUE),
                 MsgData |-> set(9, c.MsgData, FALSE),
                 MsgDataAbiValues |-> set(10, c.MsgDataAbiValues, TRUE)])

\* The messages marshalled: every field with and without a value, amounts
\* that are naturals (zero, one digit, several digits).
SampleAmounts == {Nil, Ptr(0), Ptr(4096)}

CallMessages ==
    [MsgFrom : {Repeat(<<0>>, AddressLength), Repeat(<<171>>, AddressLength)},
     MsgTo : {Nil, Ptr(Repeat(<<18>>, AddressLength))},
     MsgNonce : {0, 7},
     MsgValue : SampleAmounts,
     MsgGas : {0, 21000},
     MsgGasPrice : {Nil, Ptr(1000000000)},
     MsgGasFeeCap : {Nil, Ptr(255)},
     MsgGasTipCap : {Nil, Ptr(16)},
     MsgData : {<<>>, <<0, 255>>},
     MsgDataAbiValues : {Nil,
                         Ptr([methodSignature |-> <<"f", "(", ")">>, inputValues |-> <<>>]),
                         Ptr([methodSignature |-> <<"g">>, inputValues |-> <<0, 300, -1>>])}]

\* A message is marshalled and the JSON unmarshalled into an empty message.
ApplyMarshalUnmarshal ==
    \E m \in CallMessages :
        \E json \in {MarshalJSON(m)} :
            \E c \in {UnmarshalJSON(EmptyCallMessage, json)} :
                /\ call = NoCall
                /\ call' = [op |-> "MarshalUnmarshal", m |-> m]
                /\ result' = [kind |-> c.kind, json |-> json, c |-> c]
                /\ UNCHANGED <<chooserVars, shrinkVars>>

NextCallMessage == ApplyMarshalUnmarshal \/ ReturnPure

SpecCallMessage == InitPure /\ [][NextCallMessage]_vars

(***************************************************************************)
(* cmdValidateInitArgs (the arguments of the init command)                 *)
(***************************************************************************)
MaxInitArgs == 3   \* command-line arguments of init: 0..MaxInitArgs

\* compilation.GetSupportedCompilationPlatforms: the names of the supported
\* compilation platforms.
GetSupportedCompilationPlatforms == {"crytic-compile", "solc"}

\* compilation.IsSupportedCompilationPlatform
IsSupportedCompilationPlatform(platform) == platform \in GetSupportedCompilationPlatforms

\* cobra.RangeArgs(min, max): an error unless the number of arguments is in
\* the range.
RangeArgs(min, max, arguments) ==
    IF Len(arguments) < min \/ Len(arguments) > max THEN "error" ELSE "nil"

\* cmdValidateInitArgs without the test of the platform name.
cmdValidateInitArgsAnyPlatform(arguments) ==
    IF RangeArgs(0, 1, arguments) # "nil"
    THEN ReturnError("init accepts at most 1 platform argument")
    ELSE ReturnNil

\* cmdValidateInitArgs (lines 41-64); what it writes to the log is left out.
cmdValidateInitArgs(arguments) ==
    IF RangeArgs(0, 1, arguments) # "nil"
    THEN ReturnError("init accepts at most 1 platform argument")
    ELSE IF Len(arguments) = 1 /\ ~IsSupportedCompilationPlatform(arguments[1])
    THEN ReturnError("init was provided invalid platform argument")
    ELSE ReturnNil

\* The words of a command line: the supported platforms, another platform,
\* a supported name in another case, the empty word.
SampleWords == GetSupportedCompilationPlatforms \cup {"truffle", "Solc", ""}

\* One call of cmdValidateInitArgs on the arguments of a command line.
ApplyValidateInitArgs ==
    /\ call = NoCall
    /\ \E n \in 0..MaxInitArgs : \E arguments \in [1..n -> SampleWords] :
         /\ call' = [op |-> "cmdValidateInitArgs", args |-> arguments]
         /\ result' = cmdValidateInitArgs(arguments)
    /\ UNCHANGED <<chooserVars, shrinkVars>>

NextInit == ApplyValidateInitArgs \/ ReturnPure

SpecInit == InitPure /\ [][NextInit]_vars

\* The absolute value of an integer.
Abs(n) == IF n < 0 THEN -n ELSE n

(***************************************************************************)
(* Properties of the Chooser                                               *)
(***************************************************************************)
HasPositiveWeight(cs) == \E i \in 1..Len(cs) : cs[i].weight > 0

\* C1 (as stated; Spec): on a Chooser made by NewChooserWithRand, AddChoices
\* adds a choice of positive weight (it does not fail), and Choose then
\* returns one of the choices held and never the error "selected position
\* does not exist".
C1_ChooseReturnsAnAddedChoice ==
    \A t \in Threads :
        /\ HasPositiveWeight(args[t]) => ret[t].kind # "panic"
        /\ ret[t].err # "selected position does not exist"
        /\ ret[t].kind = "item" =>
              /\ ret[t].index \in 1..Len(choices)
              /\ choices[ret[t].index].Data = ret[t].data

\* C2 (SpecChoose): Choose never returns an item whose weight is 0.
C2_ZeroWeightNeverReturned ==
    result.kind = "item" =>
        /\ result.index \in 1..Len(choices)
        /\ choices[result.index].weight > 0

\* Choose returned an item standing after a choice of weight 0 that the scan
\* had to pass.
C2_Witness ==
    /\ call # NoCall
    /\ result.kind = "item"
    /\ \E j \in 1..(result.index - 1) : choices[j].weight = 0

\* C3 (SpecChoose): Choose on a Chooser that holds no choices, or whose
\* weights sum to zero, returns an error and no item.
C3_EmptyOrZeroWeightIsAnError ==
    (call # NoCall /\ (Len(choices) = 0 \/ SumWeights(choices) = 0)) =>
        /\ result.kind = "error"
        /\ result.index = 0

\* Choose was called on a Chooser holding choices whose weights are all 0.
C3_Witness ==
    /\ call # NoCall
    /\ Len(choices) > 0
    /\ SumWeights(choices) = 0
    /\ result.kind = "error"

\* The number of values the masked random bytes take, each equally likely:
\* bitLength bytes, the first one reduced to its low 8 - unusedBits bits.
MaskedValues(tw) ==
    LET bitLength == BitLen(tw)
    IN  Pow2(8 - (bitLength % 8)) * Pow2(8 * (bitLength - 1))

\* The number of masked values v in 0..MaskedValues(tw)-1 with v % tw = j.
ValuesWithResidue(tw, j) ==
    (MaskedValues(tw) \div tw) + (IF j < MaskedValues(tw) % tw THEN 1 ELSE 0)

\* The number of masked values for which the scan selects choice i.
RECURSIVE SelectionCount(_, _, _, _)
SelectionCount(chs, tw, i, j) ==
    IF j >= tw THEN 0
    ELSE (IF ScanChoices(chs, 1, j) = i THEN ValuesWithResidue(tw, j) ELSE 0)
         + SelectionCount(chs, tw, i, j + 1)

\* C4 (as stated; SpecChoose): counted over all equally likely values of the
\* random bytes, the fraction selecting choice i is weight_i / totalWeight.
C4_SelectionFractionIsWeightShare ==
    (call # NoCall /\ ChooseGuard(choices, totalWeight) = "proceed") =>
        \A i \in 1..Len(choices) :
            SelectionCount(choices, Deref(totalWeight), i, 0) * Deref(totalWeight)
                = choices[i].weight * MaskedValues(Deref(totalWeight))

\* C5 (as stated; Spec): no call reads or writes choices or totalWeight
\* while another call is between its Lock and its Unlock.
C5_AccessesSerializedByMutex ==
    lastAccess.thread # 0 => lastAccess.holder \in {0, lastAccess.thread}

\* C6 (SpecChoose): the weight position derived from the random bytes is an
\* integer in [0, totalWeight).
C6_PositionWithinTotalWeight ==
    (call # NoCall /\ ChooseGuard(choices, totalWeight) = "proceed") =>
        SelectedWeightPosition(Deref(totalWeight), call.randomData)
            \in 0..(Deref(totalWeight) - 1)

\* The random bytes read as an integer are at least the total weight, so the
\* position is what the modulus leaves.
C6_Witness ==
    /\ call # NoCall
    /\ ChooseGuard(choices, totalWeight) = "proceed"
    /\ SetBytes(call.randomData) >= Deref(totalWeight)
    /\ result.kind = "item"

(***************************************************************************)
(* Properties of ProjectConfig.Validate                                    *)
(***************************************************************************)
\* What the specification lists as reasons to reject a configuration.
MustReject(p) ==
    \/ p.Workers <= 0
    \/ p.CallSequenceLength <= 0
    \/ p.BlockGasLimit < p.TransactionGasLimit
    \/ p.BlockGasLimit = 0
    \/ p.TransactionGasLimit = 0
    \/ \E i \in 1..Len(p.SenderAddresses) : ~IsWellFormedAddress(p.SenderAddresses[i])
    \/ ~IsWellFormedAddress(p.DeployerAddress)

\* C7 (SpecConfig): Validate returns an error whenever workers <= 0,
\* callSequenceLength <= 0, blockGasLimit < transactionGasLimit, a gas limit
\* is 0, or a sender or deployer address is malformed; so a configuration
\* for which it returns nil has workers > 0, callSequenceLength > 0 and
\* blockGasLimit >= transactionGasLimit > 0.
C7_ValidateRejects ==
    call.op = "Validate" =>
        /\ MustReject(call.p) => result.kind = "error"
        /\ result.kind = "nil" =>
              /\ call.p.Workers > 0
              /\ call.p.CallSequenceLength > 0
              /\ call.p.BlockGasLimit >= call.p.TransactionGasLimit
              /\ call.p.TransactionGasLimit > 0

\* Validate accepted a configuration that names a sender.
C7_Witness ==
    /\ call.op = "Validate"
    /\ result.kind = "nil"
    /\ Len(call.p.SenderAddresses) > 0

\* C23 (SpecConfig): Validate returns an error when workerResetLimit <= 0,
\* and when property testing is enabled and testPrefixes is empty; with
\* property testing disabled an empty testPrefixes is no reason to reject:
\* Validate returns what it returns for the same configuration with a
\* prefix.
C23_ValidateResetLimitAndPrefixes ==
    call.op = "Validate" =>
        /\ call.p.WorkerResetLimit <= 0 => result.kind = "error"
        /\ (call.p.PropertyTestingEnabled /\ call.p.TestPrefixes = 0) => result.kind = "error"
        /\ (~call.p.PropertyTestingEnabled /\ call.p.TestPrefixes = 0) =>
              result = Validate([call.p EXCEPT !.TestPrefixes = 1])

\* Validate accepted a configuration without test prefixes, property
\* testing being disabled.
C23_Witness ==
    /\ call.op = "Validate"
    /\ ~call.p.PropertyTestingEnabled
    /\ call.p.TestPrefixes = 0
    /\ call.p.WorkerResetLimit > 0
    /\ result.kind = "nil"

\* C25 (SpecInit): cmdValidateInitArgs returns nil exactly for the argument
\* lists that are empty or hold one supported compilation platform name; it
\* returns an error for two or more arguments and for one argument that is
\* no supported platform.
C25_InitArgsAccepted ==
    call.op = "cmdValidateInitArgs" =>
        /\ result.kind \in {"nil", "error"}
        /\ result.kind = "nil" <=>
              \/ Len(call.args) = 0
              \/ Len(call.args) = 1 /\ IsSupportedCompilationPlatform(call.args[1])
        /\ Len(call.args) >= 2 => result.kind = "error"
        /\ (Len(call.args) = 1 /\ ~IsSupportedCompilationPlatform(call.args[1])) =>
              result.kind = "error"

\* One supported platform name was accepted.
C25_Witness ==
    /\ call.op = "cmdValidateInitArgs"
    /\ Len(call.args) = 1
    /\ IsSupportedCompilationPlatform(call.args[1])
    /\ result.kind = "nil"

\* C16: in every state reached from a new Chooser by any sequence of
\* AddChoices calls, totalWeight equals the sum of the weights of all
\* choices held (looked at while no AddChoices call is under way, which
\* updates the two one after the other).
C16_TotalWeightIsSumOfWeights ==
    (lockHolder = 0 /\ \A t \in Threads : pc[t] \in {"idle", "panicked"}) =>
        /\ totalWeight # Nil
        /\ Deref(totalWeight) = SumWeights(choices)

(***************************************************************************)
(* Properties of the ABI value JSON encoding                               *)
(***************************************************************************)
\* C8: for every supported ABI type t and every value v that conforms to
\* t, encodeJSONArgument(t, v) succeeds, decodeJSONArgument(t, that result)
\* succeeds, and the decoded value equals v.
C8_RoundTripReturnsTheValue ==
    call.op = "RoundTrip" =>
        /\ result.encoded.kind = "ok"
        /\ result.decoded.kind = "ok"
        /\ result.decoded.v = call.v

\* C9: decoding an address from "DeployedContract:<Name>" returns the
\* address recorded for <Name> in the deployed-contract map, and an error
\* when <Name> is not in the map; a string that does not have that form is
\* not treated as a magic value: it is decoded as a plain address string.
C9_MagicValueOnlyInItsForm ==
    (call.op = "decodeJSONArgument" /\ call.t = AddressTy /\ call.value.j = "string") =>
        LET str == call.value.v
            name == SubSeq(str, Len(addressJSONContractNameOverridePrefix) + 1, Len(str))
        IN  IF HasPrefix(str, addressJSONContractNameOverridePrefix)
            THEN IF name \in DOMAIN call.deployedContractAddr
                 THEN result = Ok(GoValue("address", call.deployedContractAddr[name]))
                 ELSE result.kind = "error"
            ELSE /\ result.kind = DecodeAddressString(str).kind
                 /\ result.kind = "ok" => result = DecodeAddressString(str)

\* C17: when decodeJSONArgument decodes a tuple and decoding one of its
\* field values fails, decodeJSONArgument returns an error for the tuple.
C17_TupleFieldErrorIsReturned ==
    (/\ call.op = "decodeJSONArgument"
     /\ call.t.T = "tuple"
     /\ call.value.j = "object"
     /\ \A k \in 1..Len(call.t.TupleElems) : call.t.TupleRawNames[k] \in DOMAIN call.value.v
     /\ \E k \in 1..Len(call.t.TupleElems) :
            decodeJSONArgument(call.t.TupleElems[k], call.value.v[call.t.TupleRawNames[k]],
                               call.deployedContractAddr).kind = "error") =>
        result.kind = "error"

\* C18: when decodeJSONArgument decodes a fixed-size array type of length
\* N from a JSON array whose length is not N, it returns an error.
C18_ArrayLengthMismatchIsAnError ==
    (/\ call.op = "decodeJSONArgument"
     /\ call.t.T = "array"
     /\ call.value.j = "array"
     /\ Len(call.value.v) # call.t.Size) =>
        result.kind = "error"

\* The integer n lies in the range of the uintN or intN type t (the
\* integers of the model lie within 31 bits).
InRangeOf(t, n) ==
    IF t.T = "uint"
    THEN n >= 0 /\ (t.Size >= 31 \/ n < Pow2(t.Size))
    ELSE t.Size >= 32 \/ (-Pow2(t.Size - 1) <= n /\ n < Pow2(t.Size - 1))

\* C19: decodeJSONArgument for a uintN or intN type returns either an
\* error or the value of the integer string, which lies inside the range
\* of the type: a string outside the range is never accepted or truncated.
C19_DecodedIntegerInRange ==
    (/\ call.op = "decodeJSONArgument"
     /\ call.t.T \in {"uint", "int"}
     /\ result.kind # "error") =>
        /\ result.kind = "ok"
        /\ InRangeOf(call.t, SetString(call.value.v).v)
        /\ result.v.v = SetString(call.value.v).v

\* The string is 40 hex digits, with or without "0x" before them.
IsHexAddress(str) ==
    LET digits == TrimHexPrefix(str)
    IN  /\ Len(digits) = 2 * AddressLength
        /\ \A k \in 1..Len(digits) : FromHexChar(digits[k]) >= 0

\* C20: decodeJSONArgument for the address type, given a string that is no
\* DeployedContract magic value, returns an address only when the string
\* is a well-formed 20-byte hex address, and an error for every other
\* string.
C20_OnlyWellFormedAddressesDecode ==
    (/\ call.op = "decodeJSONArgument"
     /\ call.t = AddressTy
     /\ call.value.j = "string"
     /\ ~Cut(call.value.v, addressJSONContractNameOverridePrefix).found) =>
        IF IsHexAddress(call.value.v)
        THEN result = Ok(GoValue("address", DecodeString(TrimHexPrefix(call.value.v), <<>>).bytes))
        ELSE result.kind = "error"

\* The decimal string str denotes the integer n: an optional "-", then
\* digits only, without leading zeros.
IsDecimalOf(str, n) ==
    LET neg == Len(str) > 0 /\ str[1] = "-"
        ds == IF neg THEN Tail(str) ELSE str
    IN  /\ Len(ds) > 0
        /\ \A k \in 1..Len(ds) : PositionIn(DigitChars, ds[k]) > 0
        /\ Len(ds) > 1 => ds[1] # "0"
        /\ neg <=> n < 0
        /\ DigitsValue(ds, 10, 0) = Abs(n)

\* The string str is the hex of the bytes bs, two digits a byte, nothing
\* before them.
IsHexOf(str, bs) ==
    /\ Len(str) = 2 * Len(bs)
    /\ \A k \in 1..Len(bs) :
         /\ FromHexChar(str[2 * k - 1]) >= 0
         /\ FromHexChar(str[2 * k]) >= 0
         /\ FromHexChar(str[2 * k - 1]) * 16 + FromHexChar(str[2 * k]) = bs[k]

\* The value v is of the Go type expected for the ABI type t (the type
\* go-ethereum packs for t).
RECURSIVE HasGoType(_, _)
HasGoType(t, v) ==
    CASE t.T = "address" -> v.go = "address"
      [] t.T \in {"uint", "int"} -> v.go = NativeIntKind(t)
      [] t.T = "bool" -> v.go = "bool"
      [] t.T = "string" -> v.go = "string"
      [] t.T = "bytes" -> v.go = "bytes"
      [] t.T = "fixedbytes" -> v.go = "bytearray" /\ Len(v.v) = t.Size
      [] t.T = "array" ->
            \/ /\ v.go = "array"
               /\ Len(v.v) = t.Size
               /\ \A k \in 1..Len(v.v) : HasGoType(t.Elem, v.v[k])
            \/ t.Elem = UintTy(8) /\ v.go = "bytearray" /\ Len(v.v) = t.Size
      [] t.T = "slice" ->
            v.go = "slice" /\ \A k \in 1..Len(v.v) : HasGoType(t.Elem, v.v[k])
      [] t.T = "tuple" ->
            /\ v.go = "struct"
            /\ v.names = StructFieldNames(t)
            /\ \A k \in 1..Len(t.TupleElems) : HasGoType(t.TupleElems[k], v.v[k])
      [] OTHER -> FALSE

\* The JSON value j has the form the encoding of the value v of type t is
\* to have.
RECURSIVE HasJSONForm(_, _, _)
HasJSONForm(t, v, j) ==
    CASE t.T \in {"uint", "int"} -> j.j = "string" /\ IsDecimalOf(j.v, v.v)
      [] t.T \in {"bytes", "fixedbytes"} -> j.j = "string" /\ IsHexOf(j.v, v.v)
      [] t.T = "tuple" ->
            /\ j.j = "object"
            /\ DOMAIN j.v = { t.TupleRawNames[k] : k \in 1..Len(t.TupleRawNames) }
            /\ \A k \in 1..Len(t.TupleElems) :
                 HasJSONForm(t.TupleElems[k], v.v[k], j.v[t.TupleRawNames[k]])
      [] t.T \in {"array", "slice"} ->
            /\ j.j = "array"
            /\ Len(j.v) = Len(Elements(v))
            /\ \A k \in 1..Len(j.v) : HasJSONForm(t.Elem, Elements(v)[k], j.v[k])
      [] OTHER -> TRUE

\* C13: what encodeJSONArgument produces is: a uintN/intN value (native or
\* big) as its decimal string; bytes and fixed bytes as hex without "0x"; a
\* tuple as an object with exactly one key per field name holding the
\* field's encoded value; an array or slice as a JSON array of as many
\* elements in the same order.
C13_EncodedJSONForm ==
    /\ (call.op = "RoundTrip" /\ result.encoded.kind = "ok") =>
            HasJSONForm(call.t, call.v, result.encoded.v)
    /\ (call.op = "encodeJSONArgument" /\ result.kind = "ok"
        /\ HasGoType(call.t, call.v)) =>
            HasJSONForm(call.t, call.v, result.v)

\* A tuple of two fields, an array and a slice holding elements, big and
\* negative integers, and bytes were encoded.
C13_Witness ==
    /\ call.op = "RoundTrip"
    /\ result.encoded.kind = "ok"
    /\ call.t.T = "tuple"
    /\ Len(call.t.TupleElems) = 2
    /\ call.t.TupleElems[1].T = "slice"
    /\ Len(call.v.v[1].v) = MaxSliceLen

C21_MistypedValueIsAnError ==
    (call.op = "encodeJSONArgument" /\ ~HasGoType(call.t, call.v)) =>
        result.kind = "error"

\* C22 (as stated): DecodeJSONArgumentsFromSlice returns an error and no
\* values when the number of values differs from the number of inputs;
\* DecodeJSONArgumentsFromMap returns an error and no values when the name
\* of some input has no entry in the map; on success both return exactly
\* one decoded value per input, in the order of the inputs.
C22_ArgumentsDecodedOrRejected ==
    /\ (call.op = "DecodeJSONArgumentsFromSlice" /\ Len(call.values) # Len(call.inputs)) =>
            result.kind = "error" /\ result.decodedArgs = Nil
    /\ (call.op = "DecodeJSONArgumentsFromMap"
        /\ \E i \in 1..Len(call.inputs) : call.inputs[i].Name \notin DOMAIN call.values) =>
            result.kind = "error" /\ result.decodedArgs = Nil
    /\ (call.op = "DecodeJSONArgumentsFromSlice" /\ result.kind = "ok") =>
            /\ Len(Deref(result.decodedArgs)) = Len(call.inputs)
            /\ \A i \in 1..Len(call.inputs) :
                 Ok(Deref(result.decodedArgs)[i])
                    = decodeJSONArgument(call.inputs[i].Type, call.values[i],
                                         call.deployedContractAddr)
    /\ (call.op = "DecodeJSONArgumentsFromMap" /\ result.kind = "ok") =>
            /\ Len(Deref(result.decodedArgs)) = Len(call.inputs)
            /\ \A i \in 1..Len(call.inputs) :
                 Ok(Deref(result.decodedArgs)[i])
                    = decodeJSONArgument(call.inputs[i].Type,
                                         call.values[call.inputs[i].Name],
                                         call.deployedContractAddr)

(***************************************************************************)
(* Properties of the shrinking value generator                             *)
(***************************************************************************)
\* C10: MutateInteger returns, for every input value (0 and nil included),
\* signedness, bit length and random choice, an integer r with
\* min <= r <= max for the signedness and bit length; it never fails and
\* never returns no value.
C10_MutateIntegerReturnsWithinBounds ==
    call.op = "MutateInteger" =>
        LET c == GetIntegerConstraints(call.signed, call.bitLength)
        IN  /\ result.kind = "ok"
            /\ c.min <= result.v
            /\ result.v <= c.max

\* C11: integer shrinking is contractive: for every in-range integer x,
\* signedness, bit length, value set and random choice, the result r of
\* MutateInteger(x) satisfies |r| <= |x|.
C11_ShrinkingIsContractive ==
    (/\ call.op = "MutateInteger"
     /\ call.i # Nil
     /\ result.kind = "ok") =>
        LET c == GetIntegerConstraints(call.signed, call.bitLength)
            x == Deref(call.i)
        IN  (c.min <= x /\ x <= c.max) => Abs(result.v) <= Abs(x)

\* C24 (as stated): the divide-by-two shrinking method applied to an
\* in-range integer that is not 0, positive or negative, yields a value of
\* strictly smaller magnitude (so that repeating it reaches 0).
C24_HalvingReducesMagnitude ==
    (/\ call.op = "MutateInteger"
     /\ call.method = 2
     /\ call.i # Nil
     /\ result.kind = "ok") =>
        LET c == GetIntegerConstraints(call.signed, call.bitLength)
            x == Deref(call.i)
        IN  (c.min <= x /\ x <= c.max /\ x # 0) => Abs(result.v) < Abs(x)

\* The sequence rs without its k-th element.
RemoveAt(rs, k) == SubSeq(rs, 1, k - 1) \o SubSeq(rs, k + 1, Len(rs))

\* C12: when MutateString removes a character from a non-empty string, the
\* result is the input with exactly one whole rune removed and all other
\* runes unchanged and in order, also for strings with multi-byte
\* characters.
C12_StringShrinksByOneRune ==
    (/\ call.op = "MutateString"
     /\ call.method = 2
     /\ Len(call.s) > 0) =>
        \E k \in 1..Len(Runes(call.s)) :
            result.v = EncodeRunes(RemoveAt(Runes(call.s), k))

\* C15: after NewShrinkingValueGenerator(valueSet, rng) returns, the
\* integers of valueSet contain 0, 1 and 2, and this still holds after any
\* sequence of the generator's MutateInteger, MutateString and
\* MutateAddress calls.
C15_ValueSetHoldsZeroOneTwo ==
    generator # NoGenerator =>
        /\ {0, 1, 2} \subseteq valueSet
        /\ generator.valueSet = valueSet

\* The generator was made on a value set without 0, 1 and 2 and a Mutate
\* call has returned a value.
C15_Witness ==
    /\ generator # NoGenerator
    /\ valueSet = {0, 1, 2, MaxLiteral}
    /\ call.op \in {"MutateInteger", "MutateString", "MutateAddress"}
    /\ result.kind = "ok"

====
